---- MODULE Spec2Model ----
(***************************************************************************)
(* Old Time Radio Wav firmware (src/src/main.py): boot reconciliation of   *)
(* the primary store (album_state.txt) and the secondary store (EEPROM),   *)
(* schedule alignment, the busy-confirmed play protocol and the button /   *)
(* auto-advance navigation loop, as a state machine.                       *)
(*                                                                         *)
(* Time is ticks_ms().  Only the sleeps of the code let time pass.  The     *)
(* main loop's 10 ms sleep is taken up to IdleIters times at once when the *)
(* iterations skipped that way would read the same inputs and decide       *)
(* nothing (SkipIters).  The code compares ticks only by ticks_diff, so    *)
(* every iteration starts with the clock shifted back to Epoch and each    *)
(* timestamp shifted with it; a timestamp older than the interval the code *)
(* compares it with is kept at that age (Aged).                            *)
(***************************************************************************)
EXTENDS Integers, Sequences, FiniteSets, TLC

\* ------------------------------------------------------------ configuration
LONG_PRESS_MS == 1000
TAP_WINDOW_MS == 800
MAX_ALBUM_NUM == 99
BUSY_CONFIRM_MS == 1800
POST_CMD_GUARD_MS == 120
DF_BOOT_MS == 2000
DFPLAYER_VOL == 28
EEPROM_SAVE_MIN_MS == 60000
EEPROM_VERSION == 1
EEPROM_FLAG_RTC_SET == 1
EEPROM_STRUCT_LEN == 20
EEPROM_MAGIC == <<79, 84, 82, 49>>
DfSendMs == 30
DfResetMs == 800
EepromPageMs == 6
BusyPollMs == 25
SecondChanceMs == 1500
IgnoreBusyMs == 2000
ReleaseSleepMs == 40
LoopSleepMs == 10
FadeInMs == 2400

\* ------------------------------------------------------------------ bounds
\* ticks_ms() at the start of boot and of every loop iteration.
Epoch == 100000
\* The card holds tracks 1..CardTracks in each folder of CardAlbums: the
\* busy line can confirm no other play.
CardTracks == 3
\* The main loop's sleep is taken at most IdleIters times in one LoopTail.
IdleIters == 37
\* The inputs change at most this often once the loop runs: button presses,
\* changes of the BUSY line that no command caused, changes of power sense.
MaxPresses == 3
MaxGlitches == 1
MaxPowerFlips == 2

\* None, where the code returns None or a tuple
None == <<>>

\* ------------------------------------------------------- text of the stores
Digit == <<"0", "1", "2", "3", "4", "5", "6", "7", "8", "9">>

DigitVal(c) == CHOOSE d \in 0..9 : Digit[d + 1] = c

IsDigit(c) == \E d \in 0..9 : Digit[d + 1] = c

RECURSIVE NatToStr(_)
\* "%d" % n for n >= 0
NatToStr(n) ==
    IF n < 10 THEN <<Digit[n + 1]>>
    ELSE Append(NatToStr(n \div 10), Digit[(n % 10) + 1])

\* "%d" % n
IntToStr(n) == IF n < 0 THEN <<"-">> \o NatToStr(0 - n) ELSE NatToStr(n)

RECURSIVE DigitsToNat(_, _)
DigitsToNat(s, acc) ==
    IF s = <<>> THEN acc
    ELSE DigitsToNat(Tail(s), acc * 10 + DigitVal(Head(s)))

AllDigits(s) == s # <<>> /\ \A i \in 1..Len(s) : IsDigit(s[i])

\* int(s): [ok, val]; ok = FALSE stands for ValueError
ParseInt(s) ==
    IF AllDigits(s) THEN [ok |-> TRUE, val |-> DigitsToNat(s, 0)]
    ELSE IF s # <<>> /\ Head(s) = "-" /\ AllDigits(Tail(s))
         THEN [ok |-> TRUE, val |-> 0 - DigitsToNat(Tail(s), 0)]
         ELSE [ok |-> FALSE, val |-> 0]

RECURSIVE SplitAcc(_, _, _, _)
SplitAcc(s, sep, cur, acc) ==
    IF s = <<>> THEN Append(acc, cur)
    ELSE IF Head(s) = sep THEN SplitAcc(Tail(s), sep, <<>>, Append(acc, cur))
         ELSE SplitAcc(Tail(s), sep, Append(cur, Head(s)), acc)

\* str.split(sep) for a one-character separator
Split(s, sep) == SplitAcc(s, sep, <<>>, <<>>)

TracksPrefix == <<"t", "r", "a", "c", "k", "s", "=">>

StartsWith(s, p) == Len(s) >= Len(p) /\ SubSeq(s, 1, Len(p)) = p

RECURSIVE SortedKeys(_)
\* sorted(d) as a sequence
SortedKeys(S) ==
    IF S = {} THEN <<>>
    ELSE LET m == CHOOSE x \in S : \A y \in S : x <= y
         IN <<m>> \o SortedKeys(S \ {m})

RECURSIVE JoinPairs(_, _)
\* ",".join("%d:%d" % (a, c) for a, c in sorted(known.items()))
JoinPairs(known, keys) ==
    IF keys = <<>> THEN <<>>
    ELSE LET a == Head(keys)
             one == IntToStr(a) \o <<":">> \o IntToStr(known[a])
         IN IF Len(keys) = 1 THEN one
            ELSE one \o <<",">> \o JoinPairs(known, Tail(keys))

\* a payload without the pairs of KNOWN_TRACKS
FormatStateNoMap(album, track, known) ==
    IntToStr(album) \o <<",">> \o IntToStr(track) \o <<";">> \o TracksPrefix

\* the payload save_state writes to album_state.txt
FormatState(album, track, known) ==
    IntToStr(album) \o <<",">> \o IntToStr(track) \o <<";">> \o TracksPrefix
        \o JoinPairs(known, SortedKeys(DOMAIN known))

EmptyMap == [a \in {} |-> 0]

MapPut(m, k, v) == [a \in DOMAIN m \cup {k} |-> IF a = k THEN v ELSE m[a]]

MapGet(m, k, dflt) == IF k \in DOMAIN m THEN m[k] ELSE dflt

RECURSIVE ParsePairs(_, _)
\* the loop over track_part.split(","): [ok, known]
ParsePairs(pairs, known) ==
    IF pairs = <<>> THEN [ok |-> TRUE, known |-> known]
    ELSE LET pair == Head(pairs)
         IN IF pair = <<>> THEN ParsePairs(Tail(pairs), known)
            ELSE LET bits == Split(pair, ":")
                 IN IF Len(bits) # 2 THEN [ok |-> FALSE, known |-> known]
                    ELSE LET a == ParseInt(bits[1])
                             c == ParseInt(bits[2])
                         IN IF a.ok /\ c.ok
                            THEN ParsePairs(Tail(pairs), MapPut(known, a.val, c.val))
                            ELSE [ok |-> FALSE, known |-> known]

LoadDefaults == [ok |-> FALSE, album |-> 1, track |-> 1, known |-> EmptyMap]

\* load_state keeping the album and track it parsed when the map fails
ParseStateKeepsPosition(f) ==
    IF ~f.present THEN LoadDefaults
    ELSE LET parts == Split(f.text, ";")
             at == Split(parts[1], ",")
         IN IF Len(at) # 2 THEN LoadDefaults
            ELSE LET a == ParseInt(at[1])
                     t == ParseInt(at[2])
                 IN IF ~(a.ok /\ t.ok) THEN LoadDefaults
                    ELSE IF Len(parts) > 1 /\ StartsWith(parts[2], TracksPrefix)
                         THEN LET track_part == SubSeq(parts[2], 8, Len(parts[2]))
                                  r == IF track_part = <<>>
                                       THEN [ok |-> TRUE, known |-> EmptyMap]
                                       ELSE ParsePairs(Split(track_part, ","), EmptyMap)
                              IN [ok |-> r.ok, album |-> a.val, track |-> t.val,
                                  known |-> IF r.ok THEN r.known ELSE EmptyMap]
                         ELSE [ok |-> TRUE, album |-> a.val, track |-> t.val,
                               known |-> EmptyMap]

\* load_state on the store f = [present, text]: what it returns and leaves
\* in current_album, current_track, KNOWN_TRACKS
ParseState(f) ==
    IF ~f.present THEN LoadDefaults
    ELSE LET parts == Split(f.text, ";")
             at == Split(parts[1], ",")
         IN IF Len(at) # 2 THEN LoadDefaults
            ELSE LET a == ParseInt(at[1])
                     t == ParseInt(at[2])
                 IN IF ~(a.ok /\ t.ok) THEN LoadDefaults
                    ELSE IF Len(parts) > 1 /\ StartsWith(parts[2], TracksPrefix)
                         THEN LET track_part == SubSeq(parts[2], 8, Len(parts[2]))
                                  r == IF track_part = <<>>
                                       THEN [ok |-> TRUE, known |-> EmptyMap]
                                       ELSE ParsePairs(Split(track_part, ","), EmptyMap)
                              IN IF r.ok
                                 THEN [ok |-> TRUE, album |-> a.val, track |-> t.val,
                                       known |-> r.known]
                                 ELSE LoadDefaults
                         ELSE [ok |-> TRUE, album |-> a.val, track |-> t.val,
                               known |-> EmptyMap]

\* -------------------------------------------------------- secondary store
RECURSIVE checksum16_loop(_, _)
\* the loop of checksum16 from a running total: total = (total + b) & 0xFFFF
\* for each byte in order, the first half of the bytes and then the second.
\* The test of total has TLC compute the running total before it goes on, so
\* that the depth of the evaluation stays small for long texts.
checksum16_loop(data, total) ==
    IF total > 65535 \/ data = <<>> THEN total
    ELSE IF Len(data) = 1 THEN (total + data[1]) % 65536
    ELSE checksum16_loop(SubSeq(data, (Len(data) \div 2) + 1, Len(data)),
                         checksum16_loop(SubSeq(data, 1, Len(data) \div 2), total))

\* a sum that counts the first byte twice
checksum16_first_twice(data) ==
    checksum16_loop(IF data = <<>> THEN data ELSE <<Head(data)>> \o data, 0)

checksum16(data) == checksum16_loop(data, 0)

RECURSIVE LE(_, _)
\* the low k bytes of n, little-endian: n & (2^(8k) - 1) as "<H" or "<I" packs it
LE(n, k) == IF k = 0 THEN <<>> ELSE <<n % 256>> \o LE(n \div 256, k - 1)

RECURSIVE FromLE(_)
FromLE(bytes) == IF bytes = <<>> THEN 0 ELSE Head(bytes) + 256 * FromLE(Tail(bytes))

\* ustruct.pack("<4sBBBBHIIH", ...) with the crc filled in
PackRecord(flags, album, track, sched_sum, sched_mtime, week_sec) ==
    LET body == EEPROM_MAGIC \o <<EEPROM_VERSION, flags % 256, album % 256, track % 256>>
                    \o LE(sched_sum, 2) \o LE(sched_mtime, 4) \o LE(week_sec, 4)
    IN body \o LE(checksum16(body), 2)

\* eeprom_load_state returning None
NoRecord == [valid |-> FALSE]

\* eeprom_load_state without the comparison of the checksum
eeprom_load_unchecked(bus, addr, raw) ==
    IF ~bus \/ ~addr THEN NoRecord
    ELSE IF Len(raw) # EEPROM_STRUCT_LEN THEN NoRecord
    ELSE IF SubSeq(raw, 1, 4) # EEPROM_MAGIC \/ raw[5] # EEPROM_VERSION THEN NoRecord
    ELSE [valid |-> TRUE, flags |-> raw[6], album |-> raw[7], track |-> raw[8],
          schedule_checksum |-> FromLE(SubSeq(raw, 9, 10)),
          schedule_mtime |-> FromLE(SubSeq(raw, 11, 14)),
          week_seconds |-> FromLE(SubSeq(raw, 15, 18))]

\* eeprom_load_state: NoRecord, or the record's fields
eeprom_load_state(bus, addr, raw) ==
    IF ~bus \/ ~addr THEN NoRecord
    ELSE IF Len(raw) # EEPROM_STRUCT_LEN THEN NoRecord
    ELSE IF SubSeq(raw, 1, 4) # EEPROM_MAGIC \/ raw[5] # EEPROM_VERSION THEN NoRecord
    ELSE IF checksum16(SubSeq(raw, 1, 18)) # FromLE(SubSeq(raw, 19, 20)) THEN NoRecord
    ELSE [valid |-> TRUE, flags |-> raw[6], album |-> raw[7], track |-> raw[8],
          schedule_checksum |-> FromLE(SubSeq(raw, 9, 10)),
          schedule_mtime |-> FromLE(SubSeq(raw, 11, 14)),
          week_seconds |-> FromLE(SubSeq(raw, 15, 18))]

\* ------------------------------------------------------ time and schedule
WeekdayT == <<0, 3, 2, 5, 0, 3, 5, 1, 4, 6, 2, 4>>

\* t[month - 1] of a 12-tuple: a negative index counts from the end, an
\* index outside -12..11 raises IndexError
MonthIndexOk(month) == month - 1 >= -12 /\ month - 1 <= 11

iso_weekday(year, month, day) ==
    LET y == IF month < 3 THEN year - 1 ELSE year
        i == IF month - 1 < 0 THEN month - 1 + 12 ELSE month - 1
        dow == (y + (y \div 4) - (y \div 100) + (y \div 400) + WeekdayT[i + 1] + day) % 7
    IN IF dow = 0 THEN 7 ELSE dow

\* dt = <<year, month, day, hour, minute, second>>
seconds_into_week(dt) ==
    ((iso_weekday(dt[1], dt[2], dt[3]) - 1) * 86400) + (dt[4] * 3600) + (dt[5] * 60) + dt[6]

\* what parse_schedule_line keeps of a line already split into numbers
LineValid(e) == e.duration > 0 /\ e.folder >= 1 /\ e.track >= 1

RECURSIVE ScanLinesClosedRange(_, _, _, _, _)
\* the loop of scan_schedule with an entry's range closed at its end
ScanLinesClosedRange(lines, target_sec, found, counts, total) ==
    IF lines = <<>> THEN <<found, counts, total>>
    ELSE LET e == Head(lines)
         IN IF ~LineValid(e) \/ e.folder > MAX_ALBUM_NUM
            THEN ScanLinesClosedRange(Tail(lines), target_sec, found, counts, total)
            ELSE ScanLinesClosedRange(Tail(lines), target_sec,
                     IF found = None /\ target_sec <= total + e.duration
                     THEN <<e.folder, e.track>> ELSE found,
                     IF e.track > MapGet(counts, e.folder, 0)
                     THEN MapPut(counts, e.folder, e.track) ELSE counts,
                     total + e.duration)

RECURSIVE ScanLines(_, _, _, _, _)
\* the loop of scan_schedule over the lines: <<found, folder_counts, total>>
ScanLines(lines, target_sec, found, counts, total) ==
    IF lines = <<>> THEN <<found, counts, total>>
    ELSE LET e == Head(lines)
         IN IF ~LineValid(e) \/ e.folder > MAX_ALBUM_NUM
            THEN ScanLines(Tail(lines), target_sec, found, counts, total)
            ELSE ScanLines(Tail(lines), target_sec,
                     IF found = None /\ target_sec < total + e.duration
                     THEN <<e.folder, e.track>> ELSE found,
                     IF e.track > MapGet(counts, e.folder, 0)
                     THEN MapPut(counts, e.folder, e.track) ELSE counts,
                     total + e.duration)

\* sched = [readable, lines]
scan_schedule(sched, target_sec) ==
    IF ~sched.readable THEN <<None, EmptyMap, 0>>
    ELSE ScanLines(sched.lines, target_sec, None, EmptyMap, 0)

\* find_track_for_time without the second scan at target_sec % total
find_track_no_wrap(sched, target_sec) ==
    LET r == scan_schedule(sched, target_sec)
    IN IF r[3] <= 0 THEN <<None, EmptyMap, 0>> ELSE r

find_track_for_time(sched, target_sec) ==
    LET r == scan_schedule(sched, target_sec)
    IN IF r[3] <= 0 THEN <<None, EmptyMap, 0>>
       ELSE IF r[1] = None
            THEN <<scan_schedule(sched, target_sec % r[3])[1], r[2], r[3]>>
            ELSE r

\* ------------------------------------------------------------------ state
VARIABLES
    pc,                  \* where the main flow is
    ticks,               \* time.ticks_ms()
    current_album, current_track, KNOWN_TRACKS,
    albumFile,           \* album_state.txt: [present, text]
    eeprom,              \* the bytes at EEPROM_STATE_ADDR
    i2c, eeprom_addr,    \* TRUE when not None
    last_eeprom_save_ms, eeprom_flags, loaded_file,
    ignore_busy_until, df_volume, last_pot_update_ms,
    tap_count, press_start, last_button, last_release_time,
    prev_busy, last_sense, rail2_on, curr, now,
    env,                 \* the hardware and files the run meets
    rtcTime,             \* the DS3231's date and time registers, decoded
    cmds,                \* the frames the last step wrote to the UART
    confirms,            \* what each wait for BUSY low of the last step returned
    saves,               \* the writes of album_state.txt in the last step
    inputs,              \* the BUSY line's level, and the input changes still to come
    obs,                 \* history of the run, read by the properties only
    fade_active,
    tim,                 \* the Timer: none yet, running since a time with so many
                         \* callbacks made, or stopped
    pwm,                 \* None, or <<the duty last written>>
    state,               \* None, or <<the dict isr_cb and the main flow share>>
    locals               \* play_am_and_fade_df_confirming's step, t_start,
                         \* confirmed, confirm_deadline; raised: an exception
                         \* is on its way out

progVars == <<current_album, current_track, KNOWN_TRACKS, albumFile, eeprom,
              last_eeprom_save_ms, eeprom_flags, ignore_busy_until, ticks, cmds,
              confirms, saves, inputs>>
busVars == <<i2c, eeprom_addr, loaded_file>>
loopVars == <<tap_count, press_start, last_button, last_release_time,
              prev_busy, last_sense, rail2_on, curr, now>>
potVars == <<df_volume, last_pot_update_ms>>
fadeVars == <<fade_active, tim, pwm, state, locals>>
vars == <<pc, progVars, busVars, loopVars, potVars, env, rtcTime, obs, fadeVars>>

\* ------------------------------------------------- the globals as a value
\* The helpers below take the globals they read and write as one record and
\* return it changed; ok is the helper's return value, raised an exception
\* that left it.
Cur ==
    [album |-> current_album, track |-> current_track, known |-> KNOWN_TRACKS,
     file |-> albumFile, eeprom |-> eeprom, last_save |-> last_eeprom_save_ms,
     flags |-> eeprom_flags, ignore |-> ignore_busy_until, ticks |-> ticks,
     bus |-> i2c, eaddr |-> eeprom_addr, rtc |-> rtcTime,
     cmds |-> <<>>, confirms |-> <<>>, saves |-> 0, inp |-> inputs,
     ok |-> FALSE, raised |-> FALSE]

Commit(m) ==
    /\ current_album' = m.album
    /\ current_track' = m.track
    /\ KNOWN_TRACKS' = m.known
    /\ albumFile' = m.file
    /\ eeprom' = m.eeprom
    /\ last_eeprom_save_ms' = m.last_save
    /\ eeprom_flags' = m.flags
    /\ ignore_busy_until' = m.ignore
    /\ ticks' = m.ticks
    /\ cmds' = m.cmds
    /\ confirms' = m.confirms
    /\ saves' = m.saves
    /\ inputs' = m.inp

Sleep(m, ms) == [m EXCEPT !.ticks = @ + ms]

\* rtc_read_datetime: None without the bus
rtc_read_datetime(m) == IF m.bus THEN m.rtc ELSE None

\* eeprom_save_state without the test of the time since the last save
eeprom_save_unlimited(m, flags, album, track) ==
    IF ~m.bus \/ ~m.eaddr THEN [m EXCEPT !.ok = FALSE]
    ELSE LET dt == rtc_read_datetime(m)
         IN IF dt # None /\ ~MonthIndexOk(dt[2]) THEN [m EXCEPT !.raised = TRUE]
            ELSE LET week_sec == IF dt # None THEN seconds_into_week(dt) ELSE 0
                     payload == PackRecord(flags, album, track, env.sched_sum,
                                           env.sched_mtime, week_sec)
                 IN [m EXCEPT !.eeprom = payload, !.last_save = m.ticks,
                              !.ticks = @ + EepromPageMs, !.ok = TRUE]

\* eeprom_save_state(flags, album, track); raised: seconds_into_week failed
eeprom_save_state(m, flags, album, track) ==
    IF ~m.bus \/ ~m.eaddr THEN [m EXCEPT !.ok = FALSE]
    ELSE IF m.last_save # 0 /\ m.ticks - m.last_save < EEPROM_SAVE_MIN_MS
         THEN [m EXCEPT !.ok = FALSE]
    ELSE LET dt == rtc_read_datetime(m)
         IN IF dt # None /\ ~MonthIndexOk(dt[2]) THEN [m EXCEPT !.raised = TRUE]
            ELSE LET week_sec == IF dt # None THEN seconds_into_week(dt) ELSE 0
                     payload == PackRecord(flags, album, track, env.sched_sum,
                                           env.sched_mtime, week_sec)
                 IN [m EXCEPT !.eeprom = payload, !.last_save = m.ticks,
                              !.ticks = @ + EepromPageMs, !.ok = TRUE]

\* save_state: the file, then the EEPROM; an exception is caught and printed
save_state(m) ==
    LET w == [m EXCEPT !.file = [present |-> TRUE,
                                 text |-> FormatState(m.album, m.track, m.known)],
                       !.saves = @ + 1]
        e == eeprom_save_state(w, w.flags, w.album, w.track)
    IN [e EXCEPT !.raised = FALSE]

\* note_track_learned without the comparison with the entry it replaces
note_track_overwritten(m, album, track) ==
    save_state([m EXCEPT !.known = MapPut(m.known, album, track)])

\* a confirmed play that leaves KNOWN_TRACKS as it was
note_track_forgotten(m, album, track) == m

note_track_learned(m, album, track) ==
    IF track > MapGet(m.known, album, 0)
    THEN save_state([m EXCEPT !.known = MapPut(m.known, album, track)])
    ELSE m

\* df_send's packet with the start byte counted into the checksum
df_packet_sum_from_start(cmd, p1, p2) ==
    LET pkt == <<126, 255, 6, cmd, 0, p1 % 256, p2 % 256>>
        csum == (0 - (pkt[1] + pkt[2] + pkt[3] + pkt[4] + pkt[5] + pkt[6] + pkt[7])) % 65536
    IN pkt \o <<(csum \div 256) % 256, csum % 256, 239>>

\* the bytes df_send writes to the UART: pkt, then csum's high and low byte,
\* then 0xEF; csum = -sum(pkt[1:7]) & 0xFFFF
df_packet(cmd, p1, p2) ==
    LET pkt == <<126, 255, 6, cmd, 0, p1 % 256, p2 % 256>>
        csum == (0 - (pkt[2] + pkt[3] + pkt[4] + pkt[5] + pkt[6] + pkt[7])) % 65536
    IN pkt \o <<(csum \div 256) % 256, csum % 256, 239>>

\* df_send: the frame's command and parameter bytes, then the settle delay
df_send(m, cmd, p1, p2) ==
    [m EXCEPT !.cmds = Append(@, <<cmd, p1 % 256, p2 % 256>>), !.ticks = @ + DfSendMs]

CMD_RESET == 63
CMD_SET_VOLUME == 6
CMD_PLAY == 15
CMD_STOP == 22

df_reset(m) == Sleep(df_send(m, CMD_RESET, 0, 0), DfResetMs)

Clamp30(v) == IF v < 0 THEN 0 ELSE IF v > 30 THEN 30 ELSE v

\* df_set_vol: v = max(0, min(30, v))
df_set_vol(m, v) == df_send(m, CMD_SET_VOLUME, 0, Clamp30(v))

df_play_folder_track(m, folder, track) == df_send(m, CMD_PLAY, folder, track)

\* the decoder stops playing: BUSY goes high
df_stop(m) == [df_send(m, CMD_STOP, 0, 0) EXCEPT !.inp.busy = 1]

\* The decoder pulls BUSY low only for a track its card holds.
CanConfirm(album, track) ==
    (album % 256) \in env.card_albums /\ (track % 256) \in 1..CardTracks

\* How long wait_for_busy_low polls before it sees BUSY low.
ConfirmWaits == {BusyPollMs}

\* play_current; conf: BUSY is seen low, after wait ms of polling
play_current(m, conf, wait) ==
    LET p == df_play_folder_track(Sleep(df_stop(m), POST_CMD_GUARD_MS), m.album, m.track)
    IN IF conf
       THEN LET l == note_track_learned(Sleep(p, wait), m.album, m.track)
            IN [l EXCEPT !.ignore = l.ticks + IgnoreBusyMs, !.ok = TRUE, !.inp.busy = 0,
                         !.confirms = Append(@, TRUE)]
       ELSE [Sleep(p, BUSY_CONFIRM_MS) EXCEPT !.ok = FALSE, !.confirms = Append(@, FALSE)]

\* The outcomes of the one or two play attempts of a handler: the second is
\* made only when the first is not confirmed, and BUSY goes low only for a
\* track the card holds.
Outcomes(a1, t1, a2, t2) ==
    {o \in [c1 : BOOLEAN, w1 : ConfirmWaits, c2 : BOOLEAN, w2 : ConfirmWaits] :
        /\ o.c1 => CanConfirm(a1, t1)
        /\ o.c2 => (~o.c1 /\ CanConfirm(a2, t2))
        /\ ~o.c1 => o.w1 = BusyPollMs
        /\ ~o.c2 => o.w2 = BusyPollMs}

\* ------------------------------------------------------- synchronized start
Max(a, b) == IF a > b THEN a ELSE b

Min(a, b) == IF a < b THEN a ELSE b

\* fade_steps and fade_delay of play_am_and_fade_df_confirming
FadeTotalMs == IF env.am_ms > 0 /\ env.am_ms < FadeInMs THEN env.am_ms ELSE FadeInMs

FadeSteps == Min(20, IF FadeTotalMs > 0 THEN Max(1, FadeTotalMs \div 40) ELSE 1)

FadeDelay == Max(10, FadeTotalMs \div FadeSteps)

\* one volume step: the frame's settle delay, then 10 ms sleeps up to fade_delay
FadeStepMs == DfSendMs + ((FadeDelay + 9) \div 10) * 10

\* how many of the steps 0..fade_steps are issued before the AM sample is done
FadeIssued == Min(FadeSteps + 1, 1 + (env.am_ms \div FadeStepMs))

\* the frames of the stepping loop: df_set_vol(int((step / fade_steps) * df_volume))
FadeFrames(vol) ==
    [i \in 1..FadeIssued |-> <<CMD_SET_VOLUME, 0, Clamp30(((i - 1) * vol) \div FadeSteps)>>]

\* play_am_and_fade_df_confirming(folder, track); conf: BUSY was seen low
\* before confirm_deadline.  It returns when the AM sample is done.
play_am_and_fade_df_confirming(m, folder, track, vol, conf) ==
    LET p == df_play_folder_track(Sleep(df_stop(m), POST_CMD_GUARD_MS), folder, track)
    IN [p EXCEPT !.cmds = @ \o FadeFrames(vol),
                 !.ticks = @ + Max(env.am_ms, FadeIssued * FadeStepMs),
                 !.ok = conf, !.inp.busy = IF conf THEN 0 ELSE @,
                 !.confirms = Append(@, conf)]

\* start_sequence_synced noting the track although the second chance failed
start_sequence_learns_unconfirmed(m, vol, conf1, conf2, wait2) ==
    LET a == play_am_and_fade_df_confirming(df_set_vol(df_reset(m), 0),
                                            m.album, m.track, vol, conf1)
    IN IF a.ok
       THEN save_state(note_track_learned(a, a.album, a.track))
       ELSE LET r == df_play_folder_track(
                         Sleep(df_stop(df_set_vol(df_reset(a), vol)), POST_CMD_GUARD_MS),
                         a.album, a.track)
            IN IF conf2
               THEN [save_state(note_track_learned(Sleep(r, wait2), r.album, r.track))
                        EXCEPT !.ok = TRUE, !.inp.busy = 0, !.confirms = Append(@, TRUE)]
               ELSE [note_track_learned(Sleep(r, SecondChanceMs), r.album, r.track)
                        EXCEPT !.ok = FALSE, !.confirms = Append(@, FALSE)]

\* start_sequence_synced; conf1: confirmed during the AM window, conf2: in
\* the second-chance window, after wait2 ms
start_sequence_synced(m, vol, conf1, conf2, wait2) ==
    LET a == play_am_and_fade_df_confirming(df_set_vol(df_reset(m), 0),
                                            m.album, m.track, vol, conf1)
    IN IF a.ok
       THEN save_state(note_track_learned(a, a.album, a.track))
       ELSE LET r == df_play_folder_track(
                         Sleep(df_stop(df_set_vol(df_reset(a), vol)), POST_CMD_GUARD_MS),
                         a.album, a.track)
            IN IF conf2
               THEN [save_state(note_track_learned(Sleep(r, wait2), r.album, r.track))
                        EXCEPT !.ok = TRUE, !.inp.busy = 0, !.confirms = Append(@, TRUE)]
               ELSE [Sleep(r, SecondChanceMs) EXCEPT !.ok = FALSE,
                                                     !.confirms = Append(@, FALSE)]

\* align_to_time saving the state it has when the schedule gives no track
align_to_time_saving(m) ==
    LET dt == rtc_read_datetime(m)
    IN IF dt = None THEN [m EXCEPT !.ok = FALSE]
       ELSE IF ~MonthIndexOk(dt[2]) THEN [m EXCEPT !.raised = TRUE, !.ok = FALSE]
       ELSE LET r == find_track_for_time(env.sched, seconds_into_week(dt))
            IN IF r[1] = None THEN [save_state(m) EXCEPT !.ok = FALSE]
               ELSE [save_state([m EXCEPT !.album = r[1][1], !.track = r[1][2],
                                          !.known = IF DOMAIN r[2] # {} THEN r[2]
                                                    ELSE m.known])
                        EXCEPT !.ok = TRUE]

\* align_to_time: ok = it aligned; raised = seconds_into_week raised
align_to_time(m) ==
    LET dt == rtc_read_datetime(m)
    IN IF dt = None THEN [m EXCEPT !.ok = FALSE]
       ELSE IF ~MonthIndexOk(dt[2]) THEN [m EXCEPT !.raised = TRUE, !.ok = FALSE]
       ELSE LET r == find_track_for_time(env.sched, seconds_into_week(dt))
            IN IF r[1] = None THEN [m EXCEPT !.ok = FALSE]
               ELSE [save_state([m EXCEPT !.album = r[1][1], !.track = r[1][2],
                                          !.known = IF DOMAIN r[2] # {} THEN r[2]
                                                    ELSE m.known])
                        EXCEPT !.ok = TRUE]

\* ------------------------------------------------------------ what a run meets
SchedNone == [readable |-> FALSE, lines |-> <<>>]

SchedEmpty == [readable |-> TRUE, lines |-> <<[folder |-> 1, track |-> 1, duration |-> 0]>>]

\* three valid entries, 450000 s in all, a folder out of range and a track 0
SchedWeek ==
    [readable |-> TRUE,
     lines |-> <<[folder |-> 1, track |-> 1, duration |-> 100000],
                 [folder |-> 100, track |-> 9, duration |-> 50],
                 [folder |-> 2, track |-> 3, duration |-> 150000],
                 [folder |-> 2, track |-> 0, duration |-> 60],
                 [folder |-> 3, track |-> 300, duration |-> 200000]>>]

\* Monday 00:00:10, Thursday 00:00:00, Sunday 23:00:00, and a month register
\* that decodes to 13
RtcMonday == <<2024, 1, 1, 0, 0, 10>>
RtcThursday == <<2024, 1, 4, 0, 0, 0>>
RtcSunday == <<2024, 1, 7, 23, 0, 0>>
RtcGarbage == <<2024, 13, 1, 0, 0, 0>>
\* the time the operator sends over the serial line
RtcSerialSet == <<2024, 1, 3, 12, 0, 0>>

RTC_SERIAL_SET_MS == 5000
\* when the operator's line is complete
SerialLineMs == 1000

BlankEeprom == [i \in 1..EEPROM_STRUCT_LEN |-> 255]

FileMissing == [present |-> FALSE, text |-> <<>>]

FileOf(album, track, known) == [present |-> TRUE, text |-> FormatState(album, track, known)]

\* "2,1;tracks=2:x": the album and track parse, the map does not
FileBadMap ==
    [present |-> TRUE, text |-> <<"2", ",", "1", ";">> \o TracksPrefix \o <<"2", ":", "x">>]

\* "0,0;tracks="
FileZero == [present |-> TRUE, text |-> <<"0", ",", "0", ";">> \o TracksPrefix]

EnvOf(rtc, eep, sched, serial, albums) ==
    [rtc_chip |-> rtc, eeprom_chip |-> eep, sched |-> sched, sched_sum |-> 4660,
     sched_mtime |-> 86, card_albums |-> albums, am_ms |-> 4000, serial |-> serial,
     pot |-> DFPLAYER_VOL]

\* call: the helper applied on its own, what it was given and what it returned
NoCall == [fn |-> "none"]

\* downFor: the time from the read of the button that saw it go down to the
\* last read that saw it down (at most LONG_PRESS_MS is kept); the button was
\* held at least that long and may have gone up right after that read.
\* heldDecision: a tap decision was taken since that press, the button down.
\* staleBusy: rail 2 went off in the loop and stage 4 has not read BUSY since,
\* the start sequence of the power-on, if there was one, having given up:
\* prev_busy is the level read before the power-off.
Obs0(e) ==
    [eeprom0 |-> e, bootAligned |-> None, bootLoaded |-> None, rtcSet |-> FALSE,
     event |-> "none", manualAt |-> 0, autoAt |-> 0,
     run |-> 0, runAt |-> 0, decRun |-> 0, downFor |-> 0, heldDecision |-> FALSE,
     staleBusy |-> FALSE, call |-> NoCall]

\* tim = None
NoTimer == [mode |-> "none", since |-> 0, fired |-> 0]

\* outside play_am_and_fade_df_confirming
NoLocals == [step |-> 0, t_start |-> 0, confirmed |-> FALSE, confirm_deadline |-> 0,
             raised |-> FALSE]

\* the globals that start the same in every run
Globals0 ==
    /\ ticks = Epoch
    /\ last_eeprom_save_ms = 0
    /\ eeprom_flags = 0
    /\ loaded_file = FALSE
    /\ ignore_busy_until = 0
    /\ df_volume = DFPLAYER_VOL
    /\ last_pot_update_ms = 0
    /\ tap_count = 0
    /\ press_start = 0
    /\ last_button = 1
    /\ last_release_time = 0
    /\ prev_busy = 1
    /\ last_sense = 1
    /\ rail2_on = TRUE
    /\ curr = 1
    /\ now = Epoch
    /\ cmds = <<>>
    /\ confirms = <<>>
    /\ saves = 0
    /\ fade_active = FALSE
    /\ tim = NoTimer
    /\ pwm = None
    /\ state = None
    /\ locals = NoLocals

InitWith(files, eeproms, envs, times, presses, glitches, flips) ==
    /\ pc = "boot_load"
    /\ Globals0
    /\ current_album = 1
    /\ current_track = 1
    /\ KNOWN_TRACKS = EmptyMap
    /\ albumFile \in files
    /\ eeprom \in eeproms
    /\ i2c = FALSE
    /\ eeprom_addr = FALSE
    /\ env \in envs
    /\ rtcTime \in times
    /\ inputs = [busy |-> 1, presses |-> presses, glitches |-> glitches, flips |-> flips]
    /\ obs = Obs0(eeprom)

\* ---------------------------------------------------------- the clock shift
\* timestamp x after the clock moved from t back to Epoch; keep is the longest
\* interval the code compares x with
Aged(x, t, keep) == Max(x - (t - Epoch), Epoch - keep)

\* the globals with the clock back at Epoch.  last_eeprom_save_ms = 0 means
\* "never saved" to eeprom_save_state and stays 0.
Rebased(m) ==
    [m EXCEPT !.ticks = Epoch,
              !.ignore = Aged(@, m.ticks, 0),
              !.last_save = IF @ = 0 THEN 0 ELSE Aged(@, m.ticks, EEPROM_SAVE_MIN_MS)]

\* ------------------------------------------------------------------- boot
Idle == obs' = [obs EXCEPT !.event = "none"]

Step(m, nextpc) ==
    /\ Commit(m)
    /\ pc' = IF m.raised THEN "halted" ELSE nextpc

\* loaded_file = load_state()
BootLoad ==
    /\ pc = "boot_load"
    /\ LET r == ParseState(albumFile)
       IN /\ Step([Cur EXCEPT !.album = r.album, !.track = r.track, !.known = r.known],
                  "boot_rtc")
          /\ loaded_file' = r.ok
          /\ obs' = [obs EXCEPT !.event = "none"]
    /\ UNCHANGED <<fadeVars, i2c, eeprom_addr, loopVars, potVars, env, rtcTime>>

\* maybe_set_rtc with RTC_BOOTSTRAP_TIME = None: the serial window
maybe_set_rtc(m) ==
    IF env.serial = "set"
    THEN eeprom_save_state(
             [Sleep(m, SerialLineMs) EXCEPT
                 !.rtc = RtcSerialSet,
                 !.flags = IF @ % 2 = 1 THEN @ ELSE @ + EEPROM_FLAG_RTC_SET],
             IF m.flags % 2 = 1 THEN m.flags ELSE m.flags + EEPROM_FLAG_RTC_SET,
             m.album, m.track)
    ELSE IF env.serial = "timeout" THEN Sleep(m, RTC_SERIAL_SET_MS)
    ELSE m

\* rtc_init() and, when it finds the DS3231, maybe_set_rtc()
BootRtc ==
    /\ pc = "boot_rtc"
    /\ i2c' = env.rtc_chip
    /\ eeprom_addr' = (env.rtc_chip /\ env.eeprom_chip)
    /\ rtcTime' = IF env.rtc_chip /\ env.serial = "set" THEN RtcSerialSet ELSE rtcTime
    /\ obs' = [obs EXCEPT !.event = "none",
                          !.rtcSet = env.rtc_chip /\ env.serial = "set",
                          !.bootLoaded = <<current_album, current_track>>]
    /\ IF env.rtc_chip
       THEN Step(maybe_set_rtc([Cur EXCEPT !.bus = TRUE, !.eaddr = env.eeprom_chip]),
                 "boot_align")
       ELSE Step(Cur, "boot_eeprom")
    /\ UNCHANGED <<fadeVars, loaded_file, loopVars, potVars, env>>

\* align_to_time("boot")
BootAlign ==
    /\ pc = "boot_align"
    /\ LET m == align_to_time(Cur)
       IN /\ Step(m, "boot_eeprom")
          /\ obs' = [obs EXCEPT !.event = "none",
                                !.bootAligned = IF m.ok THEN <<m.album, m.track>> ELSE None]
    /\ UNCHANGED <<fadeVars, busVars, loopVars, potVars, env, rtcTime>>

\* saved = eeprom_load_state() and the fallback to its album and track
BootEeprom ==
    /\ pc = "boot_eeprom"
    /\ LET saved == eeprom_load_state(i2c, eeprom_addr, eeprom)
       IN IF ~saved.valid THEN Step(Cur, "boot_start")
          ELSE IF loaded_file THEN Step([Cur EXCEPT !.flags = saved.flags % 256], "boot_start")
          ELSE Step([Cur EXCEPT !.flags = saved.flags % 256,
                                !.album = Max(1, saved.album),
                                !.track = Max(1, saved.track)], "boot_start")
    /\ obs' = [obs EXCEPT !.event = "none"]
    /\ UNCHANGED <<fadeVars, busVars, loopVars, potVars, env, rtcTime>>

\* the DFPlayer's boot delay, df_volume = pot_target_volume() and
\* start_sequence_synced()
BootStart ==
    /\ pc = "boot_start"
    /\ \E o \in Outcomes(current_album, current_track, current_album, current_track) :
          Step(start_sequence_synced(Sleep(Cur, DF_BOOT_MS), env.pot, o.c1, o.c2, o.w2),
               "loop_init")
    /\ obs' = [obs EXCEPT !.event = "start"]
    /\ df_volume' = env.pot
    /\ UNCHANGED <<fadeVars, busVars, loopVars, last_pot_update_ms, env, rtcTime>>

\* the loop's variables before its first iteration: BUSY and the power sense
\* line are read; then the clock shift
LoopInit ==
    /\ pc = "loop_init"
    /\ \E sense \in {0, 1} :
          /\ sense = 0 => inputs.flips > 0
          /\ Step(Rebased([Cur EXCEPT !.inp.flips = IF sense = 0 THEN @ - 1 ELSE @]),
                  "button")
          /\ last_sense' = sense
          /\ rail2_on' = (sense = 1)
    /\ prev_busy' = inputs.busy
    /\ tap_count' = 0
    /\ press_start' = 0
    /\ last_button' = 1
    /\ last_release_time' = 0
    /\ Idle
    /\ UNCHANGED <<fadeVars, busVars, potVars, curr, now, env, rtcTime>>

BootNext == BootLoad \/ BootRtc \/ BootAlign \/ BootEeprom \/ BootStart \/ LoopInit

InitBoot ==
    InitWith({FileMissing, FileOf(3, 2, MapPut(EmptyMap, 3, 2)), FileBadMap, FileZero},
             {BlankEeprom, PackRecord(1, 5, 7, 4660, 86, 0)},
             {EnvOf(rtc, eep, sched, serial, {1, 2, 3}) :
                 rtc \in BOOLEAN, eep \in BOOLEAN,
                 sched \in {SchedNone, SchedEmpty, SchedWeek},
                 serial \in {"none", "timeout", "set"}},
             {RtcMonday, RtcThursday, RtcSunday, RtcGarbage}, 0, 0, 0)

SpecBoot == InitBoot /\ [][BootNext]_vars

\* -------------------------------------------------------------- main loop
POT_UPDATE_MS == 150
POT_DEADBAND == 1

\* max_known = KNOWN_TRACKS.get(current_album, max(current_track, 1))
MaxKnown(m) == MapGet(m.known, m.album, Max(m.track, 1))

\* a long press that stays on the album that did not confirm
LongPressStaysOnSilentAlbum(m, conf1, wait1, conf2, wait2) ==
    LET candidate == IF m.album + 1 > MAX_ALBUM_NUM THEN 1 ELSE m.album + 1
    IN play_current(save_state([m EXCEPT !.album = candidate, !.track = 1]), conf1, wait1)

\* the long-press branch of the release edge
LongPress(m, conf1, wait1, conf2, wait2) ==
    LET candidate == IF m.album + 1 > MAX_ALBUM_NUM THEN 1 ELSE m.album + 1
        p == play_current(save_state([m EXCEPT !.album = candidate, !.track = 1]),
                          conf1, wait1)
    IN IF ~p.ok
       THEN play_current(save_state([p EXCEPT !.album = 1, !.track = 1]), conf2, wait2)
       ELSE p

\* a restart that keeps the track it was on
TripleTapKeepsTrack(m, conf1, wait1) ==
    play_current(save_state(m), conf1, wait1)

\* tap_count >= 3
TripleTap(m, conf1, wait1) ==
    play_current(save_state([m EXCEPT !.track = 1]), conf1, wait1)

\* a double tap that only counts down
DoubleTapNoWrap(m, conf1, wait1) ==
    play_current(save_state([m EXCEPT !.track = m.track - 1]), conf1, wait1)

\* tap_count == 2
DoubleTap(m, conf1, wait1) ==
    LET max_known == Max(MaxKnown(m), 1)
        t == IF m.track - 1 < 1 THEN max_known ELSE m.track - 1
    IN play_current(save_state([m EXCEPT !.track = t]), conf1, wait1)

\* a single tap whose silent probe is not followed by the wrap to track 1
SingleTapNoWrap(m, conf1, wait1, conf2, wait2) ==
    LET candidate == m.track + 1
    IN IF candidate <= MaxKnown(m)
       THEN play_current(save_state([m EXCEPT !.track = candidate]), conf1, wait1)
       ELSE LET p == play_current([m EXCEPT !.track = candidate], conf1, wait1)
            IN IF ~p.ok THEN p ELSE save_state(p)

\* tap_count == 1
SingleTap(m, conf1, wait1, conf2, wait2) ==
    LET candidate == m.track + 1
    IN IF candidate <= MaxKnown(m)
       THEN play_current(save_state([m EXCEPT !.track = candidate]), conf1, wait1)
       ELSE LET p == play_current([m EXCEPT !.track = candidate], conf1, wait1)
            IN IF ~p.ok
               THEN play_current(save_state([p EXCEPT !.track = 1]), conf2, wait2)
               ELSE save_state(p)

\* an auto advance that wraps to track 1 without saving
AutoAdvanceWrapUnsaved(m, conf1, wait1, conf2, wait2) ==
    LET candidate == m.track + 1
    IN IF candidate <= MaxKnown(m)
       THEN play_current(save_state([m EXCEPT !.track = candidate]), conf1, wait1)
       ELSE LET p == play_current([m EXCEPT !.track = candidate], conf1, wait1)
            IN IF ~p.ok
               THEN play_current([p EXCEPT !.track = 1], conf2, wait2)
               ELSE save_state(p)

\* the BUSY 0 -> 1 edge
AutoAdvance(m, conf1, wait1, conf2, wait2) ==
    LET candidate == m.track + 1
    IN IF candidate <= MaxKnown(m)
       THEN play_current(save_state([m EXCEPT !.track = candidate]), conf1, wait1)
       ELSE LET p == play_current([m EXCEPT !.track = candidate], conf1, wait1)
            IN IF ~p.ok
               THEN play_current(save_state([p EXCEPT !.track = 1]), conf2, wait2)
               ELSE save_state(p)

\* 1) button press edge
LoopPress ==
    /\ pc = "button"
    /\ last_button = 1
    /\ inputs.presses > 0
    /\ curr' = 0
    /\ now' = ticks
    /\ press_start' = ticks
    /\ Step([Cur EXCEPT !.inp.presses = @ - 1], "decide")
    /\ obs' = [obs EXCEPT !.event = "none", !.downFor = 0, !.heldDecision = FALSE]
    /\ UNCHANGED <<fadeVars, busVars, potVars, env, rtcTime, tap_count, last_button,
                   last_release_time, prev_busy, last_sense, rail2_on>>

\* no edge
LoopNoEdge ==
    /\ pc = "button"
    /\ curr' = last_button
    /\ now' = ticks
    /\ Step(Cur, "decide")
    /\ obs' = [obs EXCEPT !.event = "none",
                          !.downFor = IF last_button = 0
                                      THEN Min(LONG_PRESS_MS, ticks - press_start) ELSE @]
    /\ UNCHANGED <<fadeVars, busVars, potVars, env, rtcTime, tap_count, press_start, last_button,
                   last_release_time, prev_busy, last_sense, rail2_on>>

\* 2) button release edge, press_dur >= LONG_PRESS_MS
LoopLongPress ==
    /\ pc = "button"
    /\ last_button = 0
    /\ ticks - press_start >= LONG_PRESS_MS
    /\ curr' = 1
    /\ now' = ticks
    /\ LET nxt == IF current_album + 1 > MAX_ALBUM_NUM THEN 1 ELSE current_album + 1
       IN \E o \in Outcomes(nxt, 1, 1, 1) :
             LET m == LongPress(Cur, o.c1, o.w1, o.c2, o.w2)
             IN /\ Step(Sleep(m, ReleaseSleepMs), "decide")
                /\ obs' = [obs EXCEPT !.event = "long", !.manualAt = m.ticks, !.run = 0]
    /\ tap_count' = 0
    /\ last_release_time' = 0
    /\ UNCHANGED <<fadeVars, busVars, potVars, env, rtcTime, press_start, last_button,
                   prev_busy, last_sense, rail2_on>>

\* 2) button release edge, a short tap
LoopTap ==
    /\ pc = "button"
    /\ last_button = 0
    /\ ticks - press_start < LONG_PRESS_MS
    /\ curr' = 1
    /\ now' = ticks
    /\ tap_count' = tap_count + 1
    /\ last_release_time' = ticks
    /\ Step(Sleep(Cur, ReleaseSleepMs), "decide")
    /\ obs' = [obs EXCEPT !.event = "none",
                          !.run = IF @ > 0 /\ ticks - obs.runAt < TAP_WINDOW_MS
                                  THEN @ + 1 ELSE 1,
                          !.runAt = ticks]
    /\ UNCHANGED <<fadeVars, busVars, potVars, env, rtcTime, press_start, last_button,
                   prev_busy, last_sense, rail2_on>>

\* 3) no decision is due
LoopNoDecision ==
    /\ pc = "decide"
    /\ ~(tap_count > 0 /\ now - last_release_time >= TAP_WINDOW_MS)
    /\ Step(Cur, "busy")
    /\ Idle
    /\ UNCHANGED <<fadeVars, busVars, potVars, env, rtcTime, loopVars>>

\* 3) decide 1 / 2 / 3 taps after the quiet period
LoopDecide ==
    /\ pc = "decide"
    /\ tap_count > 0
    /\ now - last_release_time >= TAP_WINDOW_MS
    /\ LET c == Cur
           t1 == IF tap_count >= 3 THEN 1
                 ELSE IF tap_count = 2
                      THEN (IF c.track - 1 < 1 THEN Max(MaxKnown(c), 1) ELSE c.track - 1)
                      ELSE c.track + 1
       IN \E o \in Outcomes(c.album, t1, c.album, 1) :
             /\ (tap_count >= 2 \/ c.track + 1 <= MaxKnown(c)) => ~o.c2
             /\ LET m == IF tap_count >= 3 THEN TripleTap(c, o.c1, o.w1)
                         ELSE IF tap_count = 2 THEN DoubleTap(c, o.c1, o.w1)
                         ELSE SingleTap(c, o.c1, o.w1, o.c2, o.w2)
                IN /\ Step(m, "busy")
                   /\ obs' = [obs EXCEPT
                                 !.event = IF tap_count >= 3 THEN "triple"
                                           ELSE IF tap_count = 2 THEN "double"
                                           ELSE "single",
                                 !.manualAt = m.ticks, !.decRun = obs.run, !.run = 0,
                                 !.heldDecision = (curr = 0)]
    /\ tap_count' = 0
    /\ last_release_time' = 0
    /\ UNCHANGED <<fadeVars, busVars, potVars, env, rtcTime, press_start, last_button,
                   prev_busy, last_sense, rail2_on, curr, now>>

\* 4) rail 2 is off: BUSY is not read
LoopBusyOff ==
    /\ pc = "busy"
    /\ ~rail2_on
    /\ Step(Cur, "power")
    /\ Idle
    /\ UNCHANGED <<fadeVars, busVars, potVars, env, rtcTime, loopVars>>

\* 4) BUSY is read; no finished edge, or inside the ignore window
LoopBusyRead ==
    /\ pc = "busy"
    /\ rail2_on
    /\ \E b \in {0, 1} :
          /\ b # inputs.busy => inputs.glitches > 0
          /\ ~(ticks - ignore_busy_until >= 0 /\ prev_busy = 0 /\ b = 1)
          /\ prev_busy' = b
          /\ Step([Cur EXCEPT !.inp.busy = b,
                              !.inp.glitches = IF b # inputs.busy THEN @ - 1 ELSE @],
                  "power")
    /\ obs' = [obs EXCEPT !.event = "none", !.staleBusy = FALSE]
    /\ UNCHANGED <<fadeVars, busVars, potVars, env, rtcTime, tap_count, press_start, last_button,
                   last_release_time, last_sense, rail2_on, curr, now>>

\* 4) the BUSY edge taken whatever rail2_on says
LoopAutoAdvanceAnyPower ==
    /\ pc = "busy"
    /\ ticks - ignore_busy_until >= 0
    /\ prev_busy = 0
    /\ prev_busy' = 1
    /\ inputs.busy = 0 => inputs.glitches > 0
    /\ LET c == [Cur EXCEPT !.inp.busy = 1,
                            !.inp.glitches = IF inputs.busy = 0 THEN @ - 1 ELSE @]
       IN \E o \in Outcomes(c.album, c.track + 1, c.album, 1) :
             /\ (c.track + 1 <= MaxKnown(c)) => ~o.c2
             /\ Step(AutoAdvance(c, o.c1, o.w1, o.c2, o.w2), "power")
    /\ obs' = [obs EXCEPT !.event = "auto", !.autoAt = ticks, !.staleBusy = FALSE]
    /\ UNCHANGED <<fadeVars, busVars, potVars, env, rtcTime, tap_count, press_start, last_button,
                   last_release_time, last_sense, rail2_on, curr, now>>

\* 4) track finished via the BUSY edge 0 -> 1: auto advance
LoopAutoAdvance ==
    /\ pc = "busy"
    /\ rail2_on
    /\ ticks - ignore_busy_until >= 0
    /\ prev_busy = 0
    /\ prev_busy' = 1
    /\ inputs.busy = 0 => inputs.glitches > 0
    /\ LET c == [Cur EXCEPT !.inp.busy = 1,
                            !.inp.glitches = IF inputs.busy = 0 THEN @ - 1 ELSE @]
       IN \E o \in Outcomes(c.album, c.track + 1, c.album, 1) :
             /\ (c.track + 1 <= MaxKnown(c)) => ~o.c2
             /\ Step(AutoAdvance(c, o.c1, o.w1, o.c2, o.w2), "power")
    /\ obs' = [obs EXCEPT !.event = "auto", !.autoAt = ticks, !.staleBusy = FALSE]
    /\ UNCHANGED <<fadeVars, busVars, potVars, env, rtcTime, tap_count, press_start, last_button,
                   last_release_time, last_sense, rail2_on, curr, now>>

\* 5) power sense unchanged
LoopPowerSame ==
    /\ pc = "power"
    /\ Step(Cur, "tail")
    /\ Idle
    /\ UNCHANGED <<fadeVars, busVars, potVars, env, rtcTime, loopVars>>

\* 5) GP14 went low: rail 2 off
LoopPowerOff ==
    /\ pc = "power"
    /\ last_sense = 1
    /\ inputs.flips > 0
    /\ rail2_on' = FALSE
    /\ last_sense' = 0
    /\ Step(df_stop(save_state([Cur EXCEPT !.inp.flips = @ - 1])), "tail")
    /\ obs' = [obs EXCEPT !.event = "none", !.staleBusy = TRUE]
    /\ UNCHANGED <<fadeVars, busVars, potVars, env, rtcTime, tap_count, press_start, last_button,
                   last_release_time, prev_busy, curr, now>>

\* 5) GP14 went high: rail 2 on, save_state("pot turned back on")
LoopPowerOn ==
    /\ pc = "power"
    /\ last_sense = 0
    /\ inputs.flips > 0
    /\ rail2_on' = TRUE
    /\ Step(save_state([Cur EXCEPT !.inp.flips = @ - 1]), "pwr_align")
    /\ Idle
    /\ UNCHANGED <<fadeVars, busVars, potVars, env, rtcTime, tap_count, press_start, last_button,
                   last_release_time, prev_busy, last_sense, curr, now>>

\* align_to_time("power on")
PowerAlign ==
    /\ pc = "pwr_align"
    /\ Step(align_to_time(Cur), "pwr_start")
    /\ obs' = [obs EXCEPT !.event = "align"]
    /\ UNCHANGED <<fadeVars, busVars, potVars, env, rtcTime, loopVars>>

\* the DFPlayer's boot delay, start_sequence_synced(), last_sense = sense
PowerStart ==
    /\ pc = "pwr_start"
    /\ \E o \in Outcomes(current_album, current_track, current_album, current_track) :
          /\ Step(start_sequence_synced(Sleep(Cur, DF_BOOT_MS), df_volume, o.c1, o.c2, o.w2),
                  "tail")
          /\ obs' = [obs EXCEPT !.event = "start", !.staleBusy = @ /\ ~(o.c1 \/ o.c2)]
    /\ last_sense' = 1
    /\ UNCHANGED <<fadeVars, busVars, potVars, env, rtcTime, tap_count, press_start, last_button,
                   last_release_time, prev_busy, rail2_on, curr, now>>

\* The iterations of the loop that LoopTail may take at once: at most
\* IdleIters, and none past the first one in which a tap decision is due.
\* The inputs are read once per LoopTail, so the iterations skipped read what
\* this one read: they see no edge and decide nothing.
SkipIters(t) ==
    IF tap_count > 0
    THEN Max(1, Min(IdleIters,
                    (last_release_time + TAP_WINDOW_MS - t + LoopSleepMs - 1) \div LoopSleepMs))
    ELSE IdleIters

\* last_button = curr, update_volume_from_pot(), time.sleep_ms(10); then the
\* clock shift
LoopTail ==
    /\ pc = "tail"
    /\ last_button' = curr
    /\ LET c == Cur
           due == ticks - last_pot_update_ms >= POT_UPDATE_MS
           change == due /\ (env.pot - df_volume >= POT_DEADBAND
                             \/ df_volume - env.pot >= POT_DEADBAND)
           v == IF change THEN df_set_vol(c, env.pot) ELSE c
           m == Sleep(v, LoopSleepMs * SkipIters(v.ticks))
       IN /\ df_volume' = IF change THEN env.pot ELSE df_volume
          /\ last_pot_update_ms' = Aged(IF due THEN ticks ELSE last_pot_update_ms,
                                        m.ticks, POT_UPDATE_MS)
          /\ press_start' = Aged(press_start, m.ticks, LONG_PRESS_MS)
          /\ last_release_time' = IF tap_count = 0 THEN 0
                                  ELSE Aged(last_release_time, m.ticks, TAP_WINDOW_MS)
          /\ now' = Epoch
          /\ obs' = [obs EXCEPT !.event = "none",
                                !.downFor = IF curr = 1 THEN 0
                                            ELSE IF SkipIters(v.ticks) > 1
                                                 THEN Min(LONG_PRESS_MS,
                                                          m.ticks - LoopSleepMs - press_start)
                                                 ELSE @,
                                !.heldDecision = IF curr = 1 THEN FALSE ELSE @,
                                !.manualAt = Aged(@, m.ticks, IgnoreBusyMs),
                                !.autoAt = Aged(@, m.ticks, IgnoreBusyMs),
                                !.runAt = Aged(@, m.ticks, TAP_WINDOW_MS)]
          /\ Step(Rebased(m), "button")
    /\ UNCHANGED <<fadeVars, busVars, env, rtcTime, tap_count, prev_busy, last_sense, rail2_on, curr>>

LoopNext ==
    \/ LoopPress \/ LoopNoEdge \/ LoopLongPress \/ LoopTap
    \/ LoopNoDecision \/ LoopDecide
    \/ LoopBusyOff \/ LoopBusyRead \/ LoopAutoAdvance
    \/ LoopPowerSame \/ LoopPowerOff \/ LoopPowerOn \/ PowerAlign \/ PowerStart
    \/ LoopTail

Next == BootNext \/ LoopNext

Init ==
    InitWith({FileOf(1, 2, MapPut(EmptyMap, 1, 2)),
              FileOf(1, 255, MapPut(EmptyMap, 1, 255))},
             {PackRecord(1, 5, 7, 4660, 86, 0)},
             {EnvOf(FALSE, FALSE, SchedNone, "none", {1}),
              EnvOf(TRUE, FALSE, SchedWeek, "none", {1})},
             {RtcMonday}, MaxPresses, MaxGlitches, MaxPowerFlips)

Spec == Init /\ [][Next]_vars

\* ------------------------------------------------- the clock while running
\* button presses of the behaviours in which the DS3231's registers change
ClockPresses == 1

\* rtc_read_datetime() decodes whatever the DS3231's registers hold when it is
\* called: while rail 2 is off the registers come to hold another time, a
\* month field that decodes to 13 included (month = bcd_to_int(data[5] & 0x1F))
RtcChanges ==
    /\ pc = "power"
    /\ last_sense = 0
    /\ rtcTime = RtcMonday
    /\ rtcTime' \in {RtcThursday, RtcGarbage}
    /\ UNCHANGED <<pc, progVars, busVars, loopVars, potVars, env, obs, fadeVars>>

SpecClock ==
    /\ InitWith({FileOf(1, 2, MapPut(EmptyMap, 1, 2))},
                {PackRecord(1, 5, 7, 4660, 86, 0)},
                {EnvOf(TRUE, FALSE, SchedWeek, "none", {1})},
                {RtcMonday}, ClockPresses, MaxGlitches, MaxPowerFlips)
    /\ [][Next \/ RtcChanges]_vars

\* ------------------------------------------------- the helpers on their own
\* Each run applies one helper to one input: save_state, a power cycle and
\* load_state; load_state on a file it cannot parse; eeprom_load_state on a
\* record, as written or with one byte changed; checksum16 on bytes and on the
\* same bytes in another order; find_track_for_time at a second and one
\* schedule length later.
MaxSecond == 20
MaxReorders == 3
LongTextLen == 258

CallAlbums == {-1, 0, 1, 5, 99, 100}

CallTracks == {0, 1, 12, 255, 300}

CallMaps ==
    {EmptyMap, MapPut(EmptyMap, 5, 12), MapPut(MapPut(EmptyMap, 10, 3), 1, 2),
     MapPut(MapPut(MapPut(EmptyMap, 99, 255), 2, 0), -1, 300)}

TextFile(t) == [present |-> TRUE, text |-> t]

\* no file; ""; "abc"; "1;tracks="; "1,2,3;tracks="; "2,x;tracks=";
\* "2,1;tracks=2:x"; "2,1;tracks=2"; "2,1;tracks=2:3:4"; "2,1;tracks=2:3,x:1"
UnparseableFiles ==
    {FileMissing,
     TextFile(<<>>),
     TextFile(<<"a", "b", "c">>),
     TextFile(<<"1", ";">> \o TracksPrefix),
     TextFile(<<"1", ",", "2", ",", "3", ";">> \o TracksPrefix),
     TextFile(<<"2", ",", "x", ";">> \o TracksPrefix),
     FileBadMap,
     TextFile(<<"2", ",", "1", ";">> \o TracksPrefix \o <<"2">>),
     TextFile(<<"2", ",", "1", ";">> \o TracksPrefix \o <<"2", ":", "3", ":", "4">>),
     TextFile(<<"2", ",", "1", ";">> \o TracksPrefix
                  \o <<"2", ":", "3", ",", "x", ":", "1">>)}

CallRecords ==
    {PackRecord(1, 5, 7, 4660, 86, 0),
     PackRecord(0, 1, 1, 0, 0, 604799),
     PackRecord(1, 99, 255, 65535, 1000000, 216000)}

\* 258 bytes that add up to 65542
LongText == [i \in 1..LongTextLen |-> IF i = 2 THEN 7 ELSE 255]

CallTexts == {<<>>, <<7>>, <<1, 2, 3>>, <<255, 0, 255, 1>>, LongText}

\* three valid entries, 9 s in all, and a line of duration 0
SchedShort ==
    [readable |-> TRUE,
     lines |-> <<[folder |-> 1, track |-> 1, duration |-> 3],
                 [folder |-> 2, track |-> 5, duration |-> 2],
                 [folder |-> 3, track |-> 1, duration |-> 0],
                 [folder |-> 1, track |-> 2, duration |-> 4]>>]

CallSchedules == {SchedNone, SchedEmpty, SchedShort, SchedWeek}

\* 250000: inside the range a counted track-0 line of SchedWeek would have
CallSeconds == 0..MaxSecond \cup {250000, 449999, 450000, 604799}

\* RESET, SET_VOLUME, PLAY, STOP, and the ends of a byte
CallCommands == {CMD_RESET, CMD_SET_VOLUME, CMD_PLAY, CMD_STOP, 0, 255}

\* parameters inside a byte, above it and below 0
CallParams == {-1, 0, 3, 7, 30, 99, 255, 256, 300}

\* positions and maps a navigation handler can find: albums around 1 and
\* around MAX_ALBUM_NUM, tracks around 1, around the card's last track and
\* at the end of a byte; maps without the album, with a bound of 0, with a
\* bound at, above and below the track
NavAlbums == {0, 1, 2, 98, 99, 100}

NavTracks == {-1, 0, 1, 2, 3, 4, 255}

NavMaps ==
    {EmptyMap, MapPut(EmptyMap, 1, 3), MapPut(MapPut(EmptyMap, 2, 0), 99, 2),
     MapPut(MapPut(EmptyMap, 1, 1), 100, 5)}

\* the albums on the card
NavCards == {{}, {1}, {1, 2, 99}}

InitCalls ==
    /\ Globals0
    /\ i2c = TRUE
    /\ eeprom_addr = TRUE
    /\ rtcTime = RtcMonday
    /\ inputs = [busy |-> 1, presses |-> 0, glitches |-> 0, flips |-> 0]
    /\ \/ /\ pc = "call_save"
          /\ current_album \in CallAlbums
          /\ current_track \in CallTracks
          /\ KNOWN_TRACKS \in CallMaps
          /\ albumFile = FileMissing
          /\ eeprom = BlankEeprom
          /\ env = EnvOf(TRUE, TRUE, SchedNone, "none", {1})
          /\ obs = Obs0(eeprom)
       \/ /\ pc = "call_saved"
          /\ current_album = 1
          /\ current_track = 1
          /\ KNOWN_TRACKS = EmptyMap
          /\ albumFile \in UnparseableFiles
          /\ eeprom = BlankEeprom
          /\ env = EnvOf(TRUE, TRUE, SchedNone, "none", {1})
          /\ obs = Obs0(eeprom)
       \/ /\ pc \in {"call_damage", "call_eeprom"}
          /\ current_album = 1
          /\ current_track = 1
          /\ KNOWN_TRACKS = EmptyMap
          /\ albumFile = FileMissing
          /\ eeprom \in CallRecords
          /\ env = EnvOf(TRUE, TRUE, SchedNone, "none", {1})
          /\ obs = Obs0(eeprom)
       \/ /\ pc = "call_sum"
          /\ current_album = 1
          /\ current_track = 1
          /\ KNOWN_TRACKS = EmptyMap
          /\ albumFile = FileMissing
          /\ eeprom = BlankEeprom
          /\ env = EnvOf(TRUE, TRUE, SchedNone, "none", {1})
          /\ \E d \in CallTexts :
                obs = [Obs0(eeprom) EXCEPT
                          !.call = [fn |-> "checksum16", data |-> d, moves |-> 0, outs |-> {}]]
       \/ /\ pc = "call_find"
          /\ current_album = 1
          /\ current_track = 1
          /\ KNOWN_TRACKS = EmptyMap
          /\ albumFile = FileMissing
          /\ eeprom = BlankEeprom
          /\ \E sched \in CallSchedules : env = EnvOf(TRUE, TRUE, sched, "none", {1})
          /\ \E sec \in CallSeconds :
                obs = [Obs0(eeprom) EXCEPT !.call = [fn |-> "second", second |-> sec]]
       \/ /\ pc = "call_nav"
          /\ current_album \in NavAlbums
          /\ current_track \in NavTracks
          /\ KNOWN_TRACKS \in NavMaps
          /\ albumFile = FileMissing
          /\ eeprom = BlankEeprom
          /\ \E card \in NavCards : env = EnvOf(TRUE, TRUE, SchedNone, "none", card)
          /\ obs = Obs0(eeprom)
       \/ /\ pc = "call_send"
          /\ current_album = 1
          /\ current_track = 1
          /\ KNOWN_TRACKS = EmptyMap
          /\ albumFile = FileMissing
          /\ eeprom = BlankEeprom
          /\ env = EnvOf(TRUE, TRUE, SchedNone, "none", {1})
          /\ \E cmd \in CallCommands, p1 \in CallParams, p2 \in CallParams :
                obs = [Obs0(eeprom) EXCEPT
                          !.call = [fn |-> "packet", cmd |-> cmd, p1 |-> p1, p2 |-> p2]]

\* save_state()
CallSave ==
    /\ pc = "call_save"
    /\ Step(save_state(Cur), "call_saved")
    /\ obs' = [obs EXCEPT !.call = [fn |-> "save_state",
                                    saved |-> <<current_album, current_track, KNOWN_TRACKS>>]]
    /\ UNCHANGED <<fadeVars, busVars, loopVars, potVars, env, rtcTime>>

\* power is cut and comes back: the globals are those of import again
CallRestart ==
    /\ pc = "call_saved"
    /\ Step([Cur EXCEPT !.album = 1, !.track = 1, !.known = EmptyMap, !.last_save = 0,
                        !.flags = 0, !.ticks = Epoch], "boot_load")
    /\ i2c' = FALSE
    /\ eeprom_addr' = FALSE
    /\ UNCHANGED <<fadeVars, loaded_file, loopVars, potVars, env, rtcTime, obs>>

\* one byte of the record, not of its crc, gets another value
CallDamage ==
    /\ pc = "call_damage"
    /\ \E i \in 1..(EEPROM_STRUCT_LEN - 2), v \in 0..255 :
          /\ v # eeprom[i]
          /\ Step([Cur EXCEPT !.eeprom = [eeprom EXCEPT ![i] = v]], "call_eeprom")
          /\ obs' = [obs EXCEPT !.call = [fn |-> "damage", byte |-> i]]
    /\ UNCHANGED <<fadeVars, busVars, loopVars, potVars, env, rtcTime>>

\* eeprom_load_state()
CallEepromLoad ==
    /\ pc = "call_eeprom"
    /\ Step(Cur, "call_done")
    /\ obs' = [obs EXCEPT
                  !.call = [fn |-> "eeprom_load_state",
                            damaged |-> IF obs.call.fn = "damage" THEN obs.call.byte ELSE 0,
                            rec |-> eeprom_load_state(i2c, eeprom_addr, eeprom)]]
    /\ UNCHANGED <<fadeVars, busVars, loopVars, potVars, env, rtcTime>>

\* the same bytes in another order: the first goes last, or the first two
\* change places
CallReorder ==
    /\ pc = "call_sum"
    /\ obs.call.moves < MaxReorders
    /\ Len(obs.call.data) >= 2
    /\ \E d \in {Tail(obs.call.data) \o <<Head(obs.call.data)>>,
                  <<obs.call.data[2], obs.call.data[1]>>
                      \o SubSeq(obs.call.data, 3, Len(obs.call.data))} :
          obs' = [obs EXCEPT !.call.data = d, !.call.moves = @ + 1]
    /\ Step(Cur, "call_sum")
    /\ UNCHANGED <<fadeVars, busVars, loopVars, potVars, env, rtcTime>>

\* checksum16(data)
CallChecksum ==
    /\ pc = "call_sum"
    /\ obs' = [obs EXCEPT !.call.outs = @ \cup {checksum16(obs.call.data)}]
    /\ Step(Cur, "call_sum")
    /\ UNCHANGED <<fadeVars, busVars, loopVars, potVars, env, rtcTime>>

\* find_track_for_time(second), and find_track_for_time(second + total)
CallFind ==
    /\ pc = "call_find"
    /\ LET r == find_track_for_time(env.sched, obs.call.second)
           later == find_track_for_time(env.sched, obs.call.second + r[3])
       IN obs' = [obs EXCEPT !.call = [fn |-> "find_track_for_time",
                                      second |-> obs.call.second, total |-> r[3],
                                      at |-> r[1], later |-> later[1]]]
    /\ Step(Cur, "call_done")
    /\ UNCHANGED <<fadeVars, busVars, loopVars, potVars, env, rtcTime>>

\* df_send(cmd, p1, p2)
CallDfSend ==
    /\ pc = "call_send"
    /\ obs' = [obs EXCEPT
                  !.call = [fn |-> "df_send", cmd |-> obs.call.cmd, p1 |-> obs.call.p1,
                            p2 |-> obs.call.p2,
                            pkt |-> df_packet(obs.call.cmd, obs.call.p1, obs.call.p2)]]
    /\ Step(df_send(Cur, obs.call.cmd, obs.call.p1, obs.call.p2), "call_done")
    /\ UNCHANGED <<fadeVars, busVars, loopVars, potVars, env, rtcTime>>

\* the position and the map a handler started from
NavFrom(fn) ==
    [fn |-> fn, album |-> current_album, track |-> current_track, known |-> KNOWN_TRACKS]

\* the long-press branch
CallLongPress ==
    /\ pc = "call_nav"
    /\ LET nxt == IF current_album + 1 > MAX_ALBUM_NUM THEN 1 ELSE current_album + 1
       IN \E o \in Outcomes(nxt, 1, 1, 1) :
             Step(LongPress(Cur, o.c1, o.w1, o.c2, o.w2), "call_done")
    /\ obs' = [obs EXCEPT !.call = NavFrom("long")]
    /\ UNCHANGED <<fadeVars, busVars, loopVars, potVars, env, rtcTime>>

\* the tap decision with tap_count = 3
CallTripleTap ==
    /\ pc = "call_nav"
    /\ \E o \in Outcomes(current_album, 1, current_album, 1) :
          /\ ~o.c2
          /\ Step(TripleTap(Cur, o.c1, o.w1), "call_done")
    /\ obs' = [obs EXCEPT !.call = NavFrom("triple")]
    /\ UNCHANGED <<fadeVars, busVars, loopVars, potVars, env, rtcTime>>

\* the tap decision with tap_count = 2
CallDoubleTap ==
    /\ pc = "call_nav"
    /\ LET c == Cur
           t1 == IF c.track - 1 < 1 THEN Max(MaxKnown(c), 1) ELSE c.track - 1
       IN \E o \in Outcomes(c.album, t1, c.album, 1) :
             /\ ~o.c2
             /\ Step(DoubleTap(c, o.c1, o.w1), "call_done")
    /\ obs' = [obs EXCEPT !.call = NavFrom("double")]
    /\ UNCHANGED <<fadeVars, busVars, loopVars, potVars, env, rtcTime>>

\* the tap decision with tap_count = 1; auto: what the BUSY-edge branch
\* gives from the same globals when its waits for BUSY return the same
CallSingleTap ==
    /\ pc = "call_nav"
    /\ LET c == Cur
       IN \E o \in Outcomes(c.album, c.track + 1, c.album, 1) :
             /\ (c.track + 1 <= MaxKnown(c)) => ~o.c2
             /\ Step(SingleTap(c, o.c1, o.w1, o.c2, o.w2), "call_done")
             /\ LET a == AutoAdvance(c, o.c1, o.w1, o.c2, o.w2)
                IN obs' = [obs EXCEPT
                              !.call = [fn |-> "single", album |-> current_album,
                                        track |-> current_track, known |-> KNOWN_TRACKS,
                                        auto |-> [album |-> a.album, track |-> a.track,
                                                  known |-> a.known, cmds |-> a.cmds,
                                                  confirms |-> a.confirms]]]
    /\ UNCHANGED <<fadeVars, busVars, loopVars, potVars, env, rtcTime>>

CallNext ==
    \/ CallSave \/ CallRestart \/ BootLoad
    \/ CallDamage \/ CallEepromLoad
    \/ CallReorder \/ CallChecksum
    \/ CallFind
    \/ CallDfSend
    \/ CallLongPress \/ CallTripleTap \/ CallDoubleTap \/ CallSingleTap

SpecCalls == InitCalls /\ [][CallNext]_vars

\* ------------------------------------- the synchronized start, step by step
\* play_am_and_fade_df_confirming one statement group at a time, with the
\* timer's callback between them.  The asset is a WAV of env.am_ms ms at
\* 1000 / SamplePeriod samples a second; the main flow runs only when no
\* callback is due.
MID == 32768
PollSleepMs == 10
WaitSleepMs == 20
FadeOutMs == 800

AmSamplePeriodMs == 100
ShortSamplePeriodMs == 10
MaxStarts == 2
MaxPotCalls == 2

\* the asset's length in ms: shorter than one 40 ms volume step, shorter than
\* the stepping loop, shorter than the confirm window, and longer than all
AmLengths == {30, 300, 1000, 4000}

\* 1000 / SR: an asset shorter than a sample of the slow rate has the fast one
SamplePeriod ==
    IF env.am_ms < AmSamplePeriodMs THEN ShortSamplePeriodMs ELSE AmSamplePeriodMs

\* data: the samples of the asset
AmData == [i \in 1..(env.am_ms \div SamplePeriod) |-> (i * 77) % 256]

\* lut[i], with scale = int(256 * VOLUME) = 256
lut(i) == Max(0, Min(65535, MID + ((i - 128) * 256)))

\* state as the main flow makes it
NewCursor ==
    [idx |-> 0, n |-> Len(AmData), done |-> FALSE,
     fade_out_samples |-> Min(FadeOutMs \div SamplePeriod, Len(AmData))]

\* isr_cb finishing one callback early: the last sample is never written
isr_cb_done_early(st) ==
    IF st.idx >= st.n - 1
    THEN [state |-> [st EXCEPT !.done = TRUE], duty |-> MID]
    ELSE [state |-> [st EXCEPT !.idx = @ + 1], duty |-> lut(AmData[st.idx + 1])]

\* isr_cb: the dict it leaves and the duty it writes
isr_cb(st) ==
    IF st.idx >= st.n
    THEN [state |-> [st EXCEPT !.done = TRUE], duty |-> MID]
    ELSE LET raw_duty == lut(AmData[st.idx + 1])
             fo2 == st.fade_out_samples
             remaining == Max(fo2 - (st.idx - (st.n - fo2)), 0)
             duty == IF fo2 > 0 /\ st.idx >= st.n - fo2
                     THEN MID + (((raw_duty - MID) * ((remaining * 256) \div fo2)) \div 256)
                     ELSE raw_duty
         IN [state |-> [st EXCEPT !.idx = @ + 1], duty |-> duty]

\* a period of the running timer has passed since its last callback
IsrDue ==
    tim.mode = "armed" /\ tim.fired < (ticks - tim.since) \div SamplePeriod

\* the timer calls isr_cb
Isr ==
    /\ IsrDue
    /\ pc # "halted"
    /\ state' = <<isr_cb(state[1]).state>>
    /\ pwm' = <<isr_cb(state[1]).duty>>
    /\ tim' = [tim EXCEPT !.fired = @ + 1]
    /\ UNCHANGED <<pc, progVars, busVars, loopVars, potVars, env, rtcTime, obs,
                   fade_active, locals>>

\* the globals, and the frames of this call so far
Here == [Cur EXCEPT !.cmds = cmds, !.confirms = confirms]

\* start_sequence_synced up to its call of play_am_and_fade_df_confirming
AmCall ==
    /\ pc = "am_idle"
    /\ obs.call.starts < MaxStarts
    /\ Step(df_set_vol(df_reset(Cur), 0), "am_stop")
    /\ obs' = [obs EXCEPT !.call = [@ EXCEPT !.starts = @ + 1, !.lowAtPoll = FALSE]]
    /\ UNCHANGED <<busVars, loopVars, potVars, env, rtcTime, fadeVars>>

\* df_stop() followed by the set-up of the PWM and the timer, without PLAY
AmStopThenArm ==
    /\ pc = "am_stop"
    /\ ~IsrDue
    /\ Step(Sleep(df_stop(Here), POST_CMD_GUARD_MS), "am_pwm")
    /\ UNCHANGED <<busVars, loopVars, potVars, env, rtcTime, obs, fadeVars>>

\* df_stop(); time.sleep_ms(POST_CMD_GUARD_MS)
AmStop ==
    /\ pc = "am_stop"
    /\ ~IsrDue
    /\ Step(Sleep(df_stop(Here), POST_CMD_GUARD_MS), "am_play")
    /\ UNCHANGED <<busVars, loopVars, potVars, env, rtcTime, obs, fadeVars>>

\* df_play_folder_track(folder, track)
AmPlay ==
    /\ pc = "am_play"
    /\ ~IsrDue
    /\ Step(df_play_folder_track(Here, current_album, current_track), "am_pwm")
    /\ UNCHANGED <<busVars, loopVars, potVars, env, rtcTime, obs, fadeVars>>

\* pwm = PWM(p) at MID; state = {...}; tim = Timer()
AmPwm ==
    /\ pc = "am_pwm"
    /\ ~IsrDue
    /\ pwm' = <<MID>>
    /\ state' = <<NewCursor>>
    /\ tim' = NoTimer
    /\ Step(Here, "am_arm")
    /\ UNCHANGED <<busVars, loopVars, potVars, env, rtcTime, obs, fade_active, locals>>

\* tim.init(...); confirmed = False; confirm_deadline; fade_active = True
AmArm ==
    /\ pc = "am_arm"
    /\ tim' = [mode |-> "armed", since |-> ticks, fired |-> 0]
    /\ locals' = [NoLocals EXCEPT !.confirm_deadline = ticks + BUSY_CONFIRM_MS]
    /\ fade_active' = TRUE
    /\ Step(Here, "am_step")
    /\ UNCHANGED <<busVars, loopVars, potVars, env, rtcTime, obs, pwm, state>>

\* a volume step one step ahead of the ramp
AmStepOvershoots ==
    /\ pc = "am_step"
    /\ ~IsrDue
    /\ LET m == df_set_vol(Here, ((locals.step + 1) * df_volume) \div FadeSteps)
       IN /\ Step(m, "am_poll")
          /\ locals' = [locals EXCEPT !.t_start = m.ticks]
    /\ UNCHANGED <<busVars, loopVars, potVars, env, rtcTime, obs, fade_active, tim,
                   pwm, state>>

\* df_set_vol(int((step / fade_steps) * df_volume)); t_start = time.ticks_ms()
AmStep ==
    /\ pc = "am_step"
    /\ ~IsrDue
    /\ LET m == df_set_vol(Here, (locals.step * df_volume) \div FadeSteps)
       IN /\ Step(m, "am_poll")
          /\ locals' = [locals EXCEPT !.t_start = m.ticks]
    /\ UNCHANGED <<busVars, loopVars, potVars, env, rtcTime, obs, fade_active, tim,
                   pwm, state>>

\* an exception inside the try block: the UART write of a volume step fails,
\* or the console interrupts the program there
AmRaise ==
    /\ pc = "am_step"
    /\ ~IsrDue
    /\ locals' = [locals EXCEPT !.raised = TRUE]
    /\ Step(Here, "am_finally")
    /\ UNCHANGED <<busVars, loopVars, potVars, env, rtcTime, obs, fade_active, tim,
                   pwm, state>>

\* the test of BUSY in both waiting loops: the pin is read while not confirmed
\* and confirm_deadline has not passed
PollBusy(l) ==
    [l EXCEPT !.confirmed = @ \/ (ticks - l.confirm_deadline <= 0 /\ inputs.busy = 0)]

\* lowAtPoll: BUSY was low when a waiting loop of this call came by
Polled(o) == [o EXCEPT !.call.lowAtPoll = @ \/ inputs.busy = 0]

\* one pass of the loop between two volume steps
AmPoll ==
    /\ pc = "am_poll"
    /\ ~IsrDue
    /\ ticks - locals.t_start < FadeDelay
    /\ locals' = PollBusy(locals)
    /\ obs' = Polled(obs)
    /\ IF state[1].done
       THEN Step(Here, "am_finally")
       ELSE Step(Sleep(Here, PollSleepMs), "am_poll")
    /\ UNCHANGED <<busVars, loopVars, potVars, env, rtcTime, fade_active, tim, pwm, state>>

\* fade_delay is over: leave the stepping loop when the sample is done or the
\* last step is made, else make the next step
AmPollEnd ==
    /\ pc = "am_poll"
    /\ ~IsrDue
    /\ ticks - locals.t_start >= FadeDelay
    /\ locals' = [locals EXCEPT !.step = IF state[1].done \/ @ = FadeSteps THEN @ ELSE @ + 1]
    /\ Step(Here, IF state[1].done THEN "am_finally"
                  ELSE IF locals.step = FadeSteps THEN "am_wait" ELSE "am_step")
    /\ UNCHANGED <<busVars, loopVars, potVars, env, rtcTime, obs, fade_active, tim,
                   pwm, state>>

\* while not state["done"]: test BUSY, time.sleep_ms(20)
AmWait ==
    /\ pc = "am_wait"
    /\ ~IsrDue
    /\ IF state[1].done
       THEN /\ Step(Here, "am_finally")
            /\ UNCHANGED <<locals, obs>>
       ELSE /\ locals' = PollBusy(locals)
            /\ obs' = Polled(obs)
            /\ Step(Sleep(Here, WaitSleepMs), "am_wait")
    /\ UNCHANGED <<busVars, loopVars, potVars, env, rtcTime, fade_active, tim, pwm, state>>

\* a finally block that leaves the timer running
AmFinallyKeepsTimer ==
    /\ pc = "am_finally"
    /\ ~IsrDue
    /\ fade_active' = FALSE
    /\ pwm' = <<MID>>
    /\ locals' = NoLocals
    /\ Step([Here EXCEPT !.confirms = IF locals.raised THEN @
                                      ELSE Append(@, locals.confirmed)],
            IF locals.raised THEN "halted" ELSE "am_idle")
    /\ UNCHANGED <<busVars, loopVars, potVars, env, rtcTime, obs, tim, state>>

\* a finally block that leaves the output where the last callback put it
AmFinallyKeepsOutput ==
    /\ pc = "am_finally"
    /\ ~IsrDue
    /\ fade_active' = FALSE
    /\ tim' = [tim EXCEPT !.mode = "stopped"]
    /\ locals' = NoLocals
    /\ Step([Here EXCEPT !.confirms = IF locals.raised THEN @
                                      ELSE Append(@, locals.confirmed)],
            IF locals.raised THEN "halted" ELSE "am_idle")
    /\ UNCHANGED <<busVars, loopVars, potVars, env, rtcTime, obs, pwm, state>>

\* finally: fade_active = False, tim.deinit(), pwm.duty_u16(MID); then return
\* confirmed, or the exception goes on to the caller
AmFinally ==
    /\ pc = "am_finally"
    /\ ~IsrDue
    /\ fade_active' = FALSE
    /\ tim' = [tim EXCEPT !.mode = "stopped"]
    /\ pwm' = <<MID>>
    /\ locals' = NoLocals
    /\ Step([Here EXCEPT !.confirms = IF locals.raised THEN @
                                      ELSE Append(@, locals.confirmed)],
            IF locals.raised THEN "halted" ELSE "am_idle")
    /\ UNCHANGED <<busVars, loopVars, potVars, env, rtcTime, obs, state>>

\* the decoder starts the track: BUSY goes low
BusyFalls ==
    /\ pc \in {"am_pwm", "am_arm", "am_step", "am_poll", "am_wait"}
    /\ inputs.busy = 1
    /\ CanConfirm(current_album, current_track)
    /\ Step([Here EXCEPT !.inp.busy = 0], pc)
    /\ UNCHANGED <<busVars, loopVars, potVars, env, rtcTime, obs, fadeVars>>

\* update_volume_from_pot without the test of fade_active
update_volume_unguarded(force) ==
    LET due == force \/ ticks - last_pot_update_ms >= POT_UPDATE_MS
        change == force \/ env.pot - df_volume >= POT_DEADBAND
                        \/ df_volume - env.pot >= POT_DEADBAND
    IN IF ~due
       THEN Step(Here, pc) /\ UNCHANGED potVars
       ELSE /\ last_pot_update_ms' = ticks
            /\ df_volume' = IF change THEN env.pot ELSE df_volume
            /\ Step(IF change THEN df_set_vol(Here, env.pot) ELSE Here, pc)

\* update_volume_from_pot(force); pot_adc is not None, and
\* pot_target_volume() is env.pot
update_volume_from_pot(force) ==
    LET due == force \/ ticks - last_pot_update_ms >= POT_UPDATE_MS
        change == force \/ env.pot - df_volume >= POT_DEADBAND
                        \/ df_volume - env.pot >= POT_DEADBAND
    IN IF fade_active \/ ~due
       THEN Step(Here, pc) /\ UNCHANGED potVars
       ELSE /\ last_pot_update_ms' = ticks
            /\ df_volume' = IF change THEN env.pot ELSE df_volume
            /\ Step(IF change THEN df_set_vol(Here, env.pot) ELSE Here, pc)

\* update_volume_from_pot called between two statements of the orchestration,
\* or between two starts
PotCall ==
    /\ pc \in {"am_idle", "am_step", "am_poll", "am_wait"}
    /\ ~IsrDue
    /\ obs.call.pots < MaxPotCalls
    /\ \E force \in BOOLEAN :
          /\ update_volume_from_pot(force)
          /\ obs' = [obs EXCEPT !.call.pots = @ + 1,
                                !.call.forcedInFade = @ \/ (force /\ fade_active)]
    /\ UNCHANGED <<busVars, loopVars, env, rtcTime, fadeVars>>

InitFade ==
    /\ Globals0
    /\ pc = "am_idle"
    /\ current_album = 1
    /\ current_track = 1
    /\ KNOWN_TRACKS = EmptyMap
    /\ albumFile = FileMissing
    /\ eeprom = BlankEeprom
    /\ i2c = FALSE
    /\ eeprom_addr = FALSE
    /\ rtcTime = RtcMonday
    \* the pot stands at df_volume's first value or lower; the card holds the
    \* track or not
    /\ \E a \in AmLengths, p \in {DFPLAYER_VOL, 10}, card \in {{}, {1}} :
          env = [EnvOf(FALSE, FALSE, SchedNone, "none", card) EXCEPT !.am_ms = a, !.pot = p]
    /\ inputs = [busy |-> 1, presses |-> 0, glitches |-> 0, flips |-> 0]
    /\ obs = [Obs0(eeprom) EXCEPT !.call = [fn |-> "am", starts |-> 0, pots |-> 0,
                                          lowAtPoll |-> FALSE, forcedInFade |-> FALSE]]

FadeNext ==
    \/ AmCall \/ AmStop \/ AmPlay \/ AmPwm \/ AmArm
    \/ AmStep \/ AmRaise \/ AmPoll \/ AmPollEnd \/ AmWait \/ AmFinally
    \/ Isr \/ BusyFalls \/ PotCall

SpecFade == InitFade /\ [][FadeNext]_vars

\* ------------------------------------------------------------- properties
BootPcs == {"boot_load", "boot_rtc", "boot_align", "boot_eeprom", "boot_start", "loop_init"}

LoopPcs == {"button", "decide", "busy", "power", "pwr_align", "pwr_start", "tail"}

\* no entry of KNOWN_TRACKS is lowered or removed by the step
KnownKept ==
    \A a \in DOMAIN KNOWN_TRACKS :
        a \in DOMAIN KNOWN_TRACKS' /\ KNOWN_TRACKS'[a] >= KNOWN_TRACKS[a]

\* the record the previous session left in the EEPROM, as a working chip
\* returns it
PreviousRecord == eeprom_load_state(TRUE, TRUE, obs.eeprom0)

\* C1: with KNOWN_TRACKS[album] = k and current_track = k, the single-tap
\* decision sends STOP and then PLAY for track k + 1, in the bytes df_send
\* gives it; when that play is confirmed the entry and the current track are
\* k + 1 afterwards, and when it is not the current track is 1 and the entry
\* is still k.
C1_SingleTapProbe ==
    [][(/\ pc = "decide"
        /\ tap_count = 1
        /\ now - last_release_time >= TAP_WINDOW_MS
        /\ current_album \in DOMAIN KNOWN_TRACKS
        /\ KNOWN_TRACKS[current_album] = current_track)
       => /\ Len(cmds') >= 2
          /\ cmds'[1] = <<CMD_STOP, 0, 0>>
          /\ cmds'[2] = <<CMD_PLAY, current_album % 256, (current_track + 1) % 256>>
          /\ current_album' = current_album
          /\ confirms'[1] => /\ current_track' = current_track + 1
                             /\ KNOWN_TRACKS'[current_album] = current_track + 1
          /\ ~confirms'[1] => /\ current_track' = 1
                              /\ KNOWN_TRACKS'[current_album] = current_track]_vars

\* a single tap probed the track after the last known one, heard nothing and
\* wrapped to track 1, which played
C1_ProbeWrapped ==
    /\ obs.event = "single"
    /\ confirms = <<FALSE, TRUE>>
    /\ current_track = 1
    /\ current_album \in DOMAIN KNOWN_TRACKS
    /\ KNOWN_TRACKS[current_album] > 1

\* C2: once boot is over the current album is in 1..99 and the current track
\* in 1..255, whatever the stores held.
C2_PositionInRange ==
    pc \in LoopPcs => current_album \in 1..MAX_ALBUM_NUM /\ current_track \in 1..255

\* C3: a step in which a play was confirmed lowers or removes no entry of
\* KNOWN_TRACKS.
C3_ConfirmedPlaysKeepKnown ==
    [][(\E i \in DOMAIN confirms' : confirms'[i]) => KnownKept]_vars

\* a restart or a step back was confirmed on a track below the album's entry
C3_ConfirmedBelowKnown ==
    /\ obs.event \in {"double", "triple"}
    /\ confirms = <<TRUE>>
    /\ current_album \in DOMAIN KNOWN_TRACKS
    /\ KNOWN_TRACKS[current_album] > current_track

\* C4: once the loop runs, no step other than a triple-tap restart lowers or
\* removes an entry of KNOWN_TRACKS: not a tap, a long press, an auto advance,
\* a power-off, a power-on or the alignment that follows it.
C4_OnlyRestartLowersKnown ==
    [][(pc \in LoopPcs /\ obs'.event # "triple") => KnownKept]_vars

\* C5: when the alignment of boot succeeded, on a track of 1..255, the
\* position the start sequence begins with is the aligned one.
C5_AlignedPositionAtStart ==
    (pc = "boot_start" /\ obs.bootAligned # None /\ obs.bootAligned[2] \in 1..255)
        => <<current_album, current_track>> = obs.bootAligned

\* C6: when the EEPROM was found and the previous session left a valid record
\* in it, eeprom_flags after boot reconciliation are that record's flags.
C6_PreviousFlagsAdopted ==
    (pc = "boot_start" /\ eeprom_addr /\ PreviousRecord.valid)
        => eeprom_flags = PreviousRecord.flags

\* C7: when album_state.txt did not load and the previous session left a
\* valid record in the EEPROM, the position alignment starts from is the
\* record's album and track.
C7_SecondaryPositionBeforeAlign ==
    (pc = "boot_align" /\ ~loaded_file /\ eeprom_addr /\ PreviousRecord.valid)
        => <<current_album, current_track>> = <<PreviousRecord.album, PreviousRecord.track>>

\* the frames end with RESET, SET_VOLUME, STOP and the PLAY sent before
EndsWithRetry(c) ==
    /\ Len(c) >= 5
    /\ c[Len(c) - 3] = <<CMD_RESET, 0, 0>>
    /\ c[Len(c) - 2][1] = CMD_SET_VOLUME
    /\ c[Len(c) - 1] = <<CMD_STOP, 0, 0>>
    /\ c[Len(c)][1] = CMD_PLAY
    /\ \E i \in 1..(Len(c) - 4) : c[i] = c[Len(c)]

\* C8: a handler whose last play is reported unconfirmed has sent the retry
\* (RESET, SET_VOLUME, STOP, the same PLAY) before giving up.
C8_RetryBeforeUnconfirmed ==
    (confirms # <<>> /\ ~confirms[Len(confirms)]) => EndsWithRetry(cmds)

\* C9: an auto advance is at least the ignore window after the end of the
\* last tap decision or long press, confirmed or not.
C9_NoAutoAdvanceInIgnoreWindow ==
    obs.event = "auto" => obs.autoAt - obs.manualAt >= IgnoreBusyMs

\* C10: the releases are those the loop sees, timed by the loop's clock.  A
\* run of three or more short releases, each less than TAP_WINDOW_MS after the
\* one before, is never decided as a single or a double tap; the decision is
\* taken in the first iteration that finds the quiet period over; the
\* triple-tap decision leaves track 1 and an empty counter behind.
C10_TripleTapDecidedOnce ==
    /\ tap_count >= obs.run
    /\ obs.event \in {"single", "double"} => obs.decRun < 3
    /\ (pc = "busy" /\ tap_count > 0) => now - last_release_time < TAP_WINDOW_MS
    /\ obs.event = "triple" => current_track = 1 /\ tap_count = 0 /\ obs.run = 0

\* three short releases in a row were decided as a triple tap
C10_TripleTapTaken ==
    obs.event = "triple" /\ obs.decRun >= 3 /\ current_track = 1

\* C11: a release is handled as a long press only when the button was held
\* for LONG_PRESS_MS: the reads of the button saw it down over at least that
\* long.
C11_LongPressOnlyWhenHeldLong ==
    obs.event = "long" => obs.downFor >= LONG_PRESS_MS

\* C12: when the button was held for LONG_PRESS_MS and its release handled as
\* a long press, no tap decision was taken for the taps before it while it was
\* down, and the tap counter is zero afterwards.
C12_LongPressDiscardsTaps ==
    (obs.event = "long" /\ obs.downFor >= LONG_PRESS_MS)
        => (~obs.heldDecision /\ tap_count = 0)

\* the position the EEPROM's record holds, as a working chip returns it
StoredPosition ==
    LET r == eeprom_load_state(TRUE, TRUE, eeprom)
    IN IF r.valid THEN <<r.album, r.track>> ELSE None

\* C13: after a save to the EEPROM succeeded, a step of boot that ends less
\* than EEPROM_SAVE_MIN_MS after it, whatever saves it asks for, leaves the
\* EEPROM's bytes and last_eeprom_save_ms as they were.
C13_SaveInsideIntervalIsNoOp ==
    [][(/\ pc \in BootPcs \ {"loop_init"}
        /\ last_eeprom_save_ms # 0
        /\ ticks' - last_eeprom_save_ms < EEPROM_SAVE_MIN_MS)
       => /\ eeprom' = eeprom
          /\ last_eeprom_save_ms' = last_eeprom_save_ms]_vars

\* the EEPROM was written when the clock was set; the alignment that followed
\* moved the position and saved it, and the EEPROM still holds the old one
C13_AlignSaveRefused ==
    /\ pc = "boot_eeprom"
    /\ obs.rtcSet
    /\ last_eeprom_save_ms # 0
    /\ obs.bootAligned # None
    /\ saves > 0
    /\ StoredPosition # None
    /\ StoredPosition # <<current_album % 256, current_track % 256>>

\* C15: with a schedule that cannot be read or has no valid entry, the
\* alignment of boot fails: it leaves the album, the track and KNOWN_TRACKS
\* as they were and writes neither album_state.txt nor the EEPROM.
C15_FailedAlignKeepsState ==
    [][(pc = "boot_align" /\ scan_schedule(env.sched, 0)[3] = 0)
       => /\ obs'.bootAligned = None
          /\ saves' = 0
          /\ UNCHANGED <<current_album, current_track, KNOWN_TRACKS, albumFile, eeprom,
                         last_eeprom_save_ms>>]_vars

\* the clock gave a time, the schedule had no valid entry, and the position
\* loaded from album_state.txt is still there after the alignment
C15_AlignFailedOnEmptySchedule ==
    /\ pc = "boot_eeprom"
    /\ i2c
    /\ MonthIndexOk(rtcTime[2])
    /\ env.sched = SchedEmpty
    /\ obs.bootAligned = None
    /\ loaded_file
    /\ <<current_album, current_track>> = <<3, 2>>

\* C14: for a schedule of total duration T > 0 and a week second S >= 0,
\* find_track_for_time gives the same album and track at S and at S + T.
C14_SameTrackOneScheduleLater ==
    (obs.call.fn = "find_track_for_time" /\ obs.call.total > 0)
        => obs.call.at = obs.call.later

\* a second past the end of the schedule: both lookups took the second scan
\* and found the same track
C14_WrappedLookup ==
    /\ obs.call.fn = "find_track_for_time"
    /\ obs.call.total > 0
    /\ obs.call.second >= obs.call.total
    /\ obs.call.at # None
    /\ obs.call.at = obs.call.later

\* C16: after save_state, a power cycle and load_state, the album, the track
\* and KNOWN_TRACKS are those that were saved, and load_state returned True.
C16_SaveThenLoadRestores ==
    (pc = "boot_rtc" /\ obs.call.fn = "save_state")
        => /\ loaded_file
           /\ <<current_album, current_track, KNOWN_TRACKS>> = obs.call.saved

\* album 5, track 12 and the map {5: 12} came back from album_state.txt
C16_ExampleRestored ==
    /\ pc = "boot_rtc"
    /\ obs.call.fn = "save_state"
    /\ obs.call.saved = <<5, 12, MapPut(EmptyMap, 5, 12)>>
    /\ current_album = 5
    /\ current_track = 12
    /\ KNOWN_TRACKS = MapPut(EmptyMap, 5, 12)

\* C17: with album_state.txt missing or not parseable, in its position or in
\* its map, load_state returns False without raising and leaves album 1,
\* track 1 and an empty KNOWN_TRACKS.
C17_FailedLoadGivesDefaults ==
    /\ pc # "halted"
    /\ (pc = "boot_rtc" /\ albumFile \in UnparseableFiles)
           => /\ ~loaded_file
              /\ current_album = 1
              /\ current_track = 1
              /\ KNOWN_TRACKS = EmptyMap

\* the file's position parsed as album 2, track 1, its map did not, and the
\* position is 1, 1
C17_BadMapAfterGoodPosition ==
    /\ pc = "boot_rtc"
    /\ albumFile = FileBadMap
    /\ ~loaded_file
    /\ <<current_album, current_track>> = <<1, 1>>

\* C18: the record a step of boot writes to the EEPROM validates when it is
\* read back, and its flags, album and track are those that were saved: the
\* flags and the position the step leaves.
C18_WrittenRecordReadsBack ==
    [][eeprom' # eeprom
       => LET r == eeprom_load_state(TRUE, TRUE, eeprom')
          IN /\ r.valid
             /\ r.flags = eeprom_flags'
             /\ r.album = current_album'
             /\ r.track = current_track']_vars

\* C19: a valid record in which one byte before the crc got another value is
\* reported by eeprom_load_state as no data, without raising.
C19_DamagedRecordIsNoData ==
    /\ pc # "halted"
    /\ (obs.call.fn = "eeprom_load_state" /\ obs.call.damaged > 0)
           => ~obs.call.rec.valid

\* the byte that changed was one after the magic and the version, which only
\* the checksum covers
C19_DamageCaughtByChecksum ==
    /\ obs.call.fn = "eeprom_load_state"
    /\ obs.call.damaged > 5
    /\ ~obs.call.rec.valid

RECURSIVE SumBytes(_)
\* the sum of the bytes
SumBytes(data) ==
    IF data = <<>> THEN 0
    ELSE IF Len(data) = 1 THEN data[1]
    ELSE LET h == Len(data) \div 2
         IN SumBytes(SubSeq(data, 1, h)) + SumBytes(SubSeq(data, h + 1, Len(data)))

\* C20: checksum16 of the bytes is their sum mod 65536, and it is the same
\* for every order the bytes were given in.
C20_ChecksumIsSumOfBytes ==
    obs.call.fn = "checksum16"
        => /\ Cardinality(obs.call.outs) <= 1
           /\ \A o \in obs.call.outs : o = SumBytes(obs.call.data) % 65536

\* bytes that add up to more than 65535 were summed, reordered and summed
\* again
C20_ReorderedLongText ==
    /\ obs.call.fn = "checksum16"
    /\ obs.call.moves > 0
    /\ SumBytes(obs.call.data) > 65535
    /\ obs.call.outs = {SumBytes(obs.call.data) - 65536}

\* C21: every frame df_send writes has 10 bytes, 7E FF 06, the command, 00, the
\* low eight bits of each parameter, two checksum bytes and EF; the 16-bit
\* checksum, high byte first, added to the sum of bytes 1..6 gives 0 mod 65536;
\* PLAY(folder=3, track=7) is 7E FF 06 0F 00 03 07 FE E2 EF.
FrameWellFormed(c) ==
    /\ Len(c.pkt) = 10
    /\ SubSeq(c.pkt, 1, 7) = <<126, 255, 6, c.cmd, 0, c.p1 % 256, c.p2 % 256>>
    /\ c.pkt[8] \in 0..255
    /\ c.pkt[9] \in 0..255
    /\ c.pkt[10] = 239
    /\ (c.pkt[2] + c.pkt[3] + c.pkt[4] + c.pkt[5] + c.pkt[6] + c.pkt[7]
          + (256 * c.pkt[8]) + c.pkt[9]) % 65536 = 0

IsPlay37(c) == c.cmd = CMD_PLAY /\ c.p1 = 3 /\ c.p2 = 7

C21_FrameAndChecksum ==
    obs.call.fn = "df_send" =>
        /\ FrameWellFormed(obs.call)
        /\ IsPlay37(obs.call) => obs.call.pkt = <<126, 255, 6, 15, 0, 3, 7, 254, 226, 239>>

C21_Play37Sent == obs.call.fn = "df_send" /\ IsPlay37(obs.call)

\* C21 with the frame it gives for PLAY(folder=3, track=7): ... FF D2 EF
C21_FrameAsStated ==
    obs.call.fn = "df_send" =>
        /\ FrameWellFormed(obs.call)
        /\ IsPlay37(obs.call) => obs.call.pkt = <<126, 255, 6, 15, 0, 3, 7, 255, 210, 239>>

\* the PLAY frames among the frames of a step
IsPlayFrame(f) == f[1] = CMD_PLAY

Plays(c) == SelectSeq(c, IsPlayFrame)

\* C22: a long press plays track 1 of the next album (album 1 after 99 or
\* more); confirmed, that is the position and there is no second play; not
\* confirmed, album 1 / track 1 is played once and is the position whatever
\* the second wait returns.
C22_LongPressNextAlbumOrFirst ==
    obs.call.fn = "long"
    => LET nxt == IF obs.call.album >= MAX_ALBUM_NUM THEN 1 ELSE obs.call.album + 1
           plays == Plays(cmds)
       IN /\ Len(confirms) >= 1
          /\ Len(plays) >= 1
          /\ plays[1] = <<CMD_PLAY, nxt, 1>>
          /\ confirms[1] => /\ current_album = nxt
                            /\ current_track = 1
                            /\ Len(plays) = 1
          /\ ~confirms[1] => /\ current_album = 1
                             /\ current_track = 1
                             /\ Len(confirms) = 2
                             /\ plays = <<plays[1], <<CMD_PLAY, 1, 1>> >>

\* a long press on album 98 went to album 99, which did not confirm, and fell
\* back to album 1, which did not confirm either
C22_FallbackUnconfirmed ==
    /\ obs.call.fn = "long"
    /\ obs.call.album = 98
    /\ confirms = <<FALSE, FALSE>>
    /\ current_album = 1
    /\ current_track = 1
    /\ Plays(cmds) = <<<<CMD_PLAY, 99, 1>>, <<CMD_PLAY, 1, 1>>>>
\* C23: a double tap leaves the track one lower; when that would be below 1
\* it leaves the album's bound from KNOWN_TRACKS, or 1 when the album has no
\* bound or a bound below 1; the track it leaves is never below 1.
C23_DoubleTapWrapsToKnownBound ==
    obs.call.fn = "double"
    => LET a == obs.call.album
           k == obs.call.known
       IN /\ current_album = a
          /\ current_track = IF obs.call.track - 1 >= 1 THEN obs.call.track - 1
                             ELSE IF a \in DOMAIN k /\ k[a] >= 1 THEN k[a]
                             ELSE 1
          /\ current_track >= 1
          /\ Plays(cmds) = <<<<CMD_PLAY, a % 256, current_track % 256>>>>

\* a double tap on track 1 of an album whose bound is 3 went to track 3
C23_WrappedToBound ==
    /\ obs.call.fn = "double"
    /\ obs.call.track = 1
    /\ obs.call.album \in DOMAIN obs.call.known
    /\ obs.call.known[obs.call.album] = 3
    /\ current_track = 3
\* C24: from the same album, track and map, and with the same answers of the
\* BUSY line, the auto advance leaves the album, the track and the map the
\* single tap leaves, and sends the frames the single tap sends.
C24_AutoAdvanceAsSingleTap ==
    obs.call.fn = "single"
    => obs.call.auto = [album |-> current_album, track |-> current_track,
                        known |-> KNOWN_TRACKS, cmds |-> cmds, confirms |-> confirms]

\* both probed the track after the last known one, heard nothing and wrapped
\* to track 1, which played
C24_BothProbedAndWrapped ==
    /\ obs.call.fn = "single"
    /\ obs.call.track = 3
    /\ confirms = <<FALSE, TRUE>>
    /\ obs.call.auto.track = 1
    /\ Len(Plays(obs.call.auto.cmds)) = 2

\* C25: the step that handles a long press, a tap decision or an auto advance
\* writes album_state.txt at least once and sends at least one PLAY frame.
C25_HandlerSavesAndPlays ==
    [][obs'.event \in {"long", "single", "double", "triple", "auto"}
       => (saves' >= 1 /\ Len(Plays(cmds')) >= 1)]_vars

\* an auto advance probed a new track, heard nothing, saved track 1 and
\* played it
C25_AutoWrapSaved ==
    /\ obs.event = "auto"
    /\ confirms = <<FALSE, TRUE>>
    /\ saves >= 1
    /\ Len(Plays(cmds)) = 2
\* a call of play_am_and_fade_df_confirming is over
AmExited == pc \in {"am_idle", "halted"} /\ obs.call.starts > 0

\* C26: while the timer of a synchronized start runs, the PLAY frame of that
\* start has been sent: the timer is started after PLAY, and no callback
\* writes a sample before it.
C26_PlayBeforeTimer ==
    tim.mode = "armed"
    => /\ pc \in {"am_step", "am_poll", "am_wait", "am_finally"}
       /\ Plays(cmds) = <<<<CMD_PLAY, current_album, current_track>>>>

\* the second start of a run: its PLAY is out and its timer has written a
\* sample
C26_SampleAfterPlay ==
    /\ obs.call.starts = 2
    /\ tim.mode = "armed"
    /\ state[1].idx > 0
    /\ Plays(cmds) # <<>>

\* C27: when play_am_and_fade_df_confirming is left after the timer was
\* started, by its return or by an exception, with the sample done or not,
\* the timer is stopped and the output is at MID.
C27_ExitStopsTimerAndSilences ==
    AmExited => (tim.mode = "stopped" /\ pwm = <<MID>>)

\* an exception left the function in the middle of the sample, after the
\* callback had written samples
C27_StoppedAfterException ==
    /\ pc = "halted"
    /\ state[1].idx > 0
    /\ ~state[1].done
    /\ tim.mode = "stopped"
    /\ pwm = <<MID>>

\* C28: play_am_and_fade_df_confirming returns true exactly when BUSY was low
\* at one of the tests of its waiting loops, from the first volume step until
\* the sample is done.
C28_TrueIffLowAtSomePoll ==
    (pc = "am_idle" /\ obs.call.starts > 0) => (confirms[1] <=> obs.call.lowAtPoll)

\* C29: a call of update_volume_from_pot while fade_active is true, forced or
\* not, sends no frame and changes no variable; fade_active is false when the
\* orchestration is left.
C29_PotSilentDuringFade ==
    [][/\ (obs'.call.pots > obs.call.pots /\ fade_active)
          => UNCHANGED <<pc, progVars, potVars, fadeVars>>
       /\ pc' \in {"am_idle", "halted"} => ~fade_active']_vars

\* update_volume_from_pot(force=True) was called during the fade with the pot
\* away from df_volume, and the volume steps went on
C29_ForcedCallDuringFade ==
    /\ obs.call.forcedInFade
    /\ fade_active
    /\ env.pot # df_volume
    /\ locals.step > 1

\* C30: while the timer runs only its callback changes state's idx and done;
\* the main flow changes state only by making a new one before it starts the
\* timer, when no timer runs.
C30_CursorWrittenByCallbackOnly ==
    [][state' # state
       => \/ /\ tim.mode = "armed"
             /\ tim'.fired = tim.fired + 1
             /\ pc' = pc
             /\ state' = <<isr_cb(state[1]).state>>
          \/ /\ tim.mode # "armed"
             /\ pc = "am_pwm"
             /\ state' = <<NewCursor>>]_vars

\* the second start made a new state after the first sample was done and its
\* timer stopped
C30_CursorRemadeForSecondStart ==
    /\ obs.call.starts = 2
    /\ pc = "am_arm"
    /\ state = <<NewCursor>>
    /\ tim.mode = "none"
\* C31: once the control loop has started, no step of it halts the program:
\* every iteration ends and another one follows
C31_LoopNeverHalts == [][(pc \in LoopPcs) => (pc' # "halted")]_vars

\* the sum of the durations of the first k entries of seq
RECURSIVE PrefixSum(_, _)
PrefixSum(seq, k) == IF k = 0 THEN 0 ELSE PrefixSum(seq, k - 1) + seq[k].duration

\* <<folder, track>> of the first entry of seq whose half-open range
\* [sum of the durations before it, that sum + its duration) holds t
RangeMatch(seq, t) ==
    LET I == {i \in 1..Len(seq) : PrefixSum(seq, i - 1) <= t /\ t < PrefixSum(seq, i)}
    IN IF I = {} THEN None
       ELSE LET i == CHOOSE j \in I : \A k \in I : j <= k
            IN <<seq[i].folder, seq[i].track>>

\* the entries the claim counts: positive duration, folder in 1..99
StatedEntry(e) == e.duration > 0 /\ e.folder >= 1 /\ e.folder <= MAX_ALBUM_NUM

\* the entries parse_schedule_line and scan_schedule keep: track >= 1 too
KeptEntry(e) == StatedEntry(e) /\ e.track >= 1

FindReturned == pc = "call_done" /\ obs.call.fn = "find_track_for_time" /\ env.sched.readable

\* C32 (as the code has it): for a target below the total duration the
\* aligner returns the first kept entry, in file order, whose half-open
\* cumulative range holds the target; an entry with a non-positive duration,
\* a folder outside 1..99 or a track below 1 adds nothing to the sum and is
\* never the result
C32_FirstKeptRangeHoldsTarget ==
    FindReturned =>
        LET kept == SelectSeq(env.sched.lines, KeptEntry)
        IN /\ obs.call.total = PrefixSum(kept, Len(kept))
           /\ obs.call.second < obs.call.total =>
                  /\ obs.call.at # None
                  /\ obs.call.at = RangeMatch(kept, obs.call.second)

\* a discarded track-0 line before the match
C32_MatchAfterDiscardedTrackZero ==
    /\ FindReturned
    /\ env.sched = SchedWeek
    /\ obs.call.second = 250000
    /\ obs.call.at = <<3, 300>>

\* C32 (as stated): only a non-positive duration or a folder outside 1..99
\* keeps a parsed entry out of the sum and the result
C32_FirstStatedRangeHoldsTarget ==
    FindReturned =>
        LET counted == SelectSeq(env.sched.lines, StatedEntry)
        IN obs.call.second < PrefixSum(counted, Len(counted)) =>
               obs.call.at = RangeMatch(counted, obs.call.second)

\* the step is one call of isr_cb by the running timer
IsrCalled == tim.mode = "armed" /\ tim'.mode = "armed" /\ tim'.fired = tim.fired + 1

\* duty lies between the midpoint and the level of sample byte b
SampleLevel(duty, b) ==
    /\ Min(MID, lut(b)) <= duty
    /\ duty <= Max(MID, lut(b))
    /\ (duty = MID) => (lut(b) = MID \/ state[1].idx >= state[1].n - state[1].fade_out_samples)

\* C33: a call of the interrupt callback either writes one sample and moves
\* the cursor on by one (idx < n) or writes the midpoint and sets done
\* (idx = n); 0 <= idx <= n in every state, done only with idx = n, and
\* done is cleared only by the next arming, which makes a new cursor
C33_CallbackStepsCursor ==
    [][/\ state' # None =>
              /\ 0 <= state'[1].idx
              /\ state'[1].idx <= state'[1].n
              /\ state'[1].done => state'[1].idx = state'[1].n
       /\ IsrCalled =>
              \/ /\ state[1].idx < state[1].n
                 /\ state' = <<[state[1] EXCEPT !.idx = @ + 1]>>
                 /\ SampleLevel(pwm'[1], AmData[state[1].idx + 1])
              \/ /\ state[1].idx = state[1].n
                 /\ state' = <<[state[1] EXCEPT !.done = TRUE]>>
                 /\ pwm' = <<MID>>
       /\ (state # None /\ state[1].done /\ state' # state) =>
              (pc = "am_pwm" /\ state' = <<NewCursor>>)]_vars

\* the callback has run at idx = n of a second arming, the timer still on
C33_DoneAfterLastSampleOfSecondStart ==
    /\ state # None
    /\ state[1].done
    /\ state[1].idx = state[1].n
    /\ tim.mode = "armed"
    /\ pwm = <<MID>>
    /\ obs.call.starts = MaxStarts

\* max_steps = fade_total_ms // 40, and the floor of fade_delay
FadeStepMinMs == 40
FadeDelayFloorMs == 10

\* the stepping loop, the waiting loop or the finally block is running
InFade == pc \in {"am_step", "am_poll", "am_wait", "am_finally"}

\* index of the call's PLAY frame in cmds, 0 before it
PlayAt ==
    LET I == {i \in 1..Len(cmds) : cmds[i][1] = CMD_PLAY}
    IN IF I = {} THEN 0 ELSE CHOOSE i \in I : \A j \in I : j <= i

\* the levels of the SET_VOLUME frames sent after PLAY
FadeLevels == [j \in 1..(Len(cmds) - PlayAt) |-> cmds[PlayAt + j][3]]

\* step count and ramp of the orchestration: 1..20 steps over
\* min(FADE_IN_S, asset), fewer than 20 only if 20 steps of the minimum delay
\* do not fit; levels from 0, never falling, never above the target or 30
FadePlanAndRamp ==
    /\ FadeTotalMs = Min(FadeInMs, env.am_ms)
    /\ 1 <= FadeSteps /\ FadeSteps <= 20
    /\ FadeSteps < 20 => FadeTotalMs < 20 * FadeStepMinMs
    /\ (pc = "am_step" /\ locals.step > 0) => ticks - locals.t_start >= FadeDelay
    /\ LET p == PlayAt
           top == Min(df_volume, 30)
       IN /\ Len(cmds) - p <= FadeSteps + 1
          /\ \A j \in (p + 1)..Len(cmds) :
                /\ cmds[j][1] = CMD_SET_VOLUME
                /\ j = p + 1 => cmds[j][3] = 0
                /\ j > p + 1 => cmds[j][3] >= cmds[j - 1][3]
                /\ cmds[j][3] <= top

\* C34 (as the code has it): the orchestrator uses 1 to 20 steps, fewer than
\* 20 only when the effective fade duration cannot give each of 20 steps the
\* minimum delay of 40 ms; a step's delay is at least 40 ms when the effective
\* duration is, else it is the duration and at least 10 ms; the levels start
\* at 0, never decrease and never exceed the target volume or 30
C34_StepsDelayAndRamp ==
    InFade =>
        /\ FadePlanAndRamp
        /\ FadeDelay >= FadeDelayFloorMs
        /\ FadeTotalMs >= FadeStepMinMs => FadeDelay >= FadeStepMinMs

\* a reduced plan at work: 7 steps for the 300 ms asset, the third level out
C34_ReducedPlanStepping ==
    /\ pc = "am_poll"
    /\ env.am_ms = 300
    /\ FadeSteps = 7
    /\ Len(FadeLevels) = 3
    /\ FadeLevels[3] > 0

\* C34 (as stated): every step's delay is at least the minimum delay
C34_EveryDelayAtLeastMinimum ==
    InFade => (FadePlanAndRamp /\ FadeDelay >= FadeStepMinMs)

\* C35: an auto-advance happens only while rail2_on; while it is off the
\* busy stage of an iteration leaves album and track alone and sends no PLAY,
\* whatever BUSY does
C35_AutoAdvanceOnlyWithPower ==
    [][(pc = "busy") =>
          /\ (obs'.event = "auto") => (rail2_on /\ rail2_on')
          /\ ~rail2_on =>
                 /\ current_album' = current_album
                 /\ current_track' = current_track
                 /\ KNOWN_TRACKS' = KNOWN_TRACKS
                 /\ Plays(cmds') = <<>>
                 /\ prev_busy' = prev_busy]_vars

\* rail 2 is off, BUSY went from low to high (the STOP of power-off ended the
\* track) and the busy stage of the iteration has passed without an advance
C35_EdgeWhileOffIgnored ==
    /\ pc = "power"
    /\ ~rail2_on
    /\ last_sense = 0
    /\ prev_busy = 0
    /\ inputs.busy = 1
    /\ obs.event = "none"

\* C36: a start sequence in which neither window saw BUSY low returns
\* normally with album, track and KNOWN_TRACKS as they were, and the loop is
\* entered: the boot goes on to the loop's first iteration
C36_GivenUpStartChangesNothing ==
    [][/\ (pc = "boot_start" /\ confirms' = <<FALSE, FALSE>>) =>
              /\ pc' = "loop_init"
              /\ current_album' = current_album
              /\ current_track' = current_track
              /\ KNOWN_TRACKS' = KNOWN_TRACKS
       /\ (pc = "loop_init") => (pc' = "button")]_vars

\* the boot's start has returned after both windows failed, two PLAYs sent,
\* with the position the alignment chose
C36_StartGaveUpBeforeLoop ==
    /\ pc = "loop_init"
    /\ confirms = <<FALSE, FALSE>>
    /\ Len(Plays(cmds)) = 2
    /\ obs.bootAligned = <<current_album, current_track>>

\* C37: when the orchestration returns, the last SET_VOLUME level sent to the
\* decoder is the target volume df_volume, also when the sample was done
\* before the stepping loop had made all its steps
C37_ReturnsAtTargetVolume ==
    [][(pc = "am_finally" /\ pc' = "am_idle") =>
          /\ cmds'[Len(cmds')][1] = CMD_SET_VOLUME
          /\ cmds'[Len(cmds')][3] = df_volume]_vars

\* what load_state would read from the primary store now is the album, track
\* and map in memory (a missing or unparseable store reads as the defaults)
StoreHoldsMemory ==
    LET r == ParseState(albumFile)
    IN /\ r.album = current_album
       /\ r.track = current_track
       /\ r.known = KNOWN_TRACKS

\* C38: at the start of every iteration of the control loop the primary store
\* holds the album, track and KNOWN_TRACKS of memory, whatever the boot path
\* and the navigation before it
C38_StoreMatchesMemoryAtIteration == (pc = "button") => StoreHoldsMemory

\* C39: when the last play attempt of a step was confirmed (play_current
\* returned True, or the start sequence confirmed in either window),
\* KNOWN_TRACKS has the current album, with a bound >= the current track
C39_ConfirmedPlayIsKnown ==
    [][(confirms' # <<>> /\ confirms'[Len(confirms')]) =>
          /\ current_album' \in DOMAIN KNOWN_TRACKS'
          /\ KNOWN_TRACKS'[current_album'] >= current_track']_vars

\* a single tap probed track 3 beyond the bound 2, the play was confirmed and
\* the bound followed
C39_ProbeConfirmedAndLearned ==
    /\ obs.event = "single"
    /\ confirms = <<TRUE>>
    /\ current_track = 3
    /\ current_album \in DOMAIN KNOWN_TRACKS
    /\ KNOWN_TRACKS[current_album] = 3

\* C40: after a power-off and power-on an auto-advance needs BUSY to go from
\* low to high after the new start sequence: none fires on the level that
\* prev_busy kept from before the power-off while BUSY has been high ever
\* since a start sequence that gave up
C40_NoAdvanceOnRememberedLevel ==
    [][(pc = "busy" /\ obs'.event = "auto") => ~(obs.staleBusy /\ inputs.busy = 1)]_vars

====
